---- MODULE Spec2Model ----
(***************************************************************************)
(* The Tak rules engine of convex/games.ts: one game record of the "games" *)
(* table, the mutations createGame, joinGame, placePiece, movePieces and   *)
(* resign acting on it, and the pure helpers they call (checkRoad,         *)
(* dfsRoad, isBoardFull, countFlatStones, hasPlayerRunOutOfPieces,         *)
(* checkTak, determineWinner).                                             *)
(*                                                                         *)
(* Rows and columns are numbered from 0 as in the source; a board is a     *)
(* sequence of rows, a row a sequence of stacks, a stack a sequence of     *)
(* pieces listed bottom to top.                                            *)
(***************************************************************************)
EXTENDS Integers, Sequences, FiniteSets, TLC

VARIABLES
    status,          \* "none" (no record yet) | "waiting" | "active" | "finished"
    boardSize,       \* game.boardSize
    board,           \* game.board
    currentPlayer,   \* game.currentPlayer
    whitePlayer,     \* game.whitePlayer (a user id)
    blackPlayer,     \* game.blackPlayer (a user id, "none" while unset)
    moveCount,       \* game.moveCount
    whitePieces,     \* game.whitePieces  [flat, capstone]
    blackPieces,     \* game.blackPieces  [flat, capstone]
    isOpeningPhase,  \* game.isOpeningPhase
    winner,          \* game.winner ("none" while unset)
    winCondition,    \* game.winCondition ("none" while unset)
    movesRecorded,   \* number of rows of the "moves" table for the game
    asked,           \* the arguments of the latest createGame request
    last             \* what the latest request did and returned

vars == << status, boardSize, board, currentPlayer, whitePlayer, blackPlayer,
           moveCount, whitePieces, blackPieces, isOpeningPhase, winner,
           winCondition, movesRecorded, asked, last >>

gameVars == << status, boardSize, board, currentPlayer, whitePlayer, blackPlayer,
               moveCount, whitePieces, blackPieces, isOpeningPhase, winner,
               winCondition, movesRecorded >>

-----------------------------------------------------------------------------
(* Bounds of the model *)

\* Accepted plies explored in a game in which every request is tried.
MaxPly == 4

\* Accepted stack moves explored in such a game and in a game on two rows.
MaxStackMoves == 2

\* Standing stones on the board at any time.
MaxWalls == 1

\* Largest komi (in half points) a createGame request asks for.
MaxKomi == 1

\* Accepted plies explored in a game of placements only.
MaxFillPly == 9

\* Accepted plies explored in a game on two rows of the board.
MaxStackPly == 9

\* Accepted plies and stack moves explored in a game that empties a reserve.
MaxLongPly == 83

MaxLongMoves == 60

\* Accepted plies and stack moves explored in a game along one row of a
\* board with capstones.
MaxCapPly == 9

MaxCapMoves == 3

\* Plies and stack moves of a game on the 2 x 2 corner.
MaxTallPly == 9

MaxTallMoves == 4

\* Plies and stack moves of a game among walls and capstones.
MaxWallPly == 7

MaxWallMoves == 2

\* Plies of a game made to look at its first state.
MaxSizePly == 2

\* Plies of a game made to look at how it is joined.
MaxJoinPly == 2

\* Accepted plies explored in a game in which every request is tried to
\* the end of the game.
MaxTryPly == 6

-----------------------------------------------------------------------------
(* Values *)

Players == {"white", "black"}

PieceTypes == {"flat", "standing", "capstone"}

\* u1 creates a game, u2 joins it, u3 never becomes a player.
Users == {"u1", "u2", "u3"}

Creators == {"u1"}

Joiners == {"u1", "u2"}

\* Board sizes asked of createGame: one the handler refuses, one it accepts.
SizesAsked == {2, 3}

Other(p) == IF p = "white" THEN "black" ELSE "white"

Piece(t, p) == [type |-> t, player |-> p]

-----------------------------------------------------------------------------
(* Board helpers *)

createEmptyBoard(size) == [r \in 1..size |-> [c \in 1..size |-> << >>]]

\* getInitialPieces answering with its fallback for every size.
getInitialPiecesFallback(size) == [flat |-> 21, capstone |-> 1]

getInitialPieces(size) ==
    CASE size = 3 -> [flat |-> 10, capstone |-> 0]
      [] size = 4 -> [flat |-> 15, capstone |-> 0]
      [] size = 5 -> [flat |-> 21, capstone |-> 1]
      [] size = 6 -> [flat |-> 30, capstone |-> 1]
      [] size = 7 -> [flat |-> 40, capstone |-> 2]
      [] size = 8 -> [flat |-> 50, capstone |-> 2]
      [] OTHER    -> [flat |-> 21, capstone |-> 1]

isValidPosition(row, col, size) ==
    row >= 0 /\ row < size /\ col >= 0 /\ col < size

\* board[row][col] of the source
At(b, row, col) == b[row + 1][col + 1]

\* b with board[row][col] replaced by stack
WithStack(b, row, col, stack) == [b EXCEPT ![row + 1][col + 1] = stack]

Top(stack) == stack[Len(stack)]

\* the last n elements of s, in order: s.splice(-n) returns them
LastN(s, n) == SubSeq(s, Len(s) - n + 1, Len(s))

\* DropLastN taking the pieces away from the bottom.
DropFirstN(s, n) == SubSeq(s, n + 1, Len(s))

\* what s.splice(-n) leaves in s
DropLastN(s, n) == SubSeq(s, 1, Len(s) - n)

\* RoadCell without the test of the piece's kind: a standing stone would
\* carry a road.
RoadCellAnyKind(b, row, col, player) ==
    /\ Len(At(b, row, col)) > 0
    /\ Top(At(b, row, col)).player = player

\* a non-empty cell whose top piece is player's and is not standing
RoadCell(b, row, col, player) ==
    /\ Len(At(b, row, col)) > 0
    /\ Top(At(b, row, col)).player = player
    /\ Top(At(b, row, col)).type # "standing"

-----------------------------------------------------------------------------
(* Road detection *)

\* directions without the step to the row above.
directionsNoUp == << <<0, 1>>, <<0, -1>>, <<1, 0>> >>

directions == << <<0, 1>>, <<0, -1>>, <<1, 0>>, <<-1, 0>> >>

RECURSIVE dfsRoad(_, _, _, _, _, _)
RECURSIVE dfsNeighbours(_, _, _, _, _, _, _)

\* The recursive search; returns whether the far edge was reached and the
\* visited array as the call leaves it (the array is shared by reference).
dfsRoad(b, visited, row, col, player, direction) ==
    IF direction = "horizontal" /\ col = Len(b) - 1
    THEN [found |-> TRUE, visited |-> visited]
    ELSE IF direction = "vertical" /\ row = Len(b) - 1
    THEN [found |-> TRUE, visited |-> visited]
    ELSE dfsNeighbours(b, visited \cup {<<row, col>>}, row, col, player, direction, 1)

\* The loop over the four directions, from the i-th on.
dfsNeighbours(b, visited, row, col, player, direction, i) ==
    IF i > Len(directions)
    THEN [found |-> FALSE, visited |-> visited]
    ELSE LET newRow == row + directions[i][1]
             newCol == col + directions[i][2]
         IN  IF /\ isValidPosition(newRow, newCol, Len(b))
                /\ <<newRow, newCol>> \notin visited
                /\ RoadCell(b, newRow, newCol, player)
             THEN LET r == dfsRoad(b, visited, newRow, newCol, player, direction)
                  IN  IF r.found
                      THEN r
                      ELSE dfsNeighbours(b, r.visited, row, col, player, direction, i + 1)
             ELSE dfsNeighbours(b, visited, row, col, player, direction, i + 1)

RECURSIVE horizontalFrom(_, _, _, _)

\* The first loop of checkRoad, from the given row on; one visited array
\* serves all rows.
horizontalFrom(b, visited, row, player) ==
    IF row >= Len(b)
    THEN FALSE
    ELSE IF RoadCell(b, row, 0, player)
    THEN LET r == dfsRoad(b, visited, row, 0, player, "horizontal")
         IN  IF r.found THEN TRUE ELSE horizontalFrom(b, r.visited, row + 1, player)
    ELSE horizontalFrom(b, visited, row + 1, player)

\* The second loop of checkRoad; every column starts with a fresh array.
verticalAny(b, player) ==
    \E col \in 0..(Len(b) - 1) :
        /\ RoadCell(b, 0, col, player)
        /\ dfsRoad(b, {}, 0, col, player, "vertical").found

checkRoad(b, player) ==
    \/ horizontalFrom(b, {}, 0, player)
    \/ verticalAny(b, player)

-----------------------------------------------------------------------------
(* End of game *)

CellsOf(b) == {<<row, col>> : row \in 0..(Len(b) - 1), col \in 0..(Len(b) - 1)}

\* isBoardFull answering for the first row alone, as a loop that returns
\* after its first row would.
isBoardFullFirstRow(b) ==
    \A col \in 0..(Len(b) - 1) : Len(At(b, 0, col)) # 0

isBoardFull(b) ==
    \A rc \in CellsOf(b) : Len(At(b, rc[1], rc[2])) # 0

\* countFlatStones without the test of the top piece's kind: standing
\* stones and capstones would be counted too.
countFlatStonesAnyTop(b) ==
    [white |-> Cardinality({rc \in CellsOf(b) :
                    /\ Len(At(b, rc[1], rc[2])) > 0
                    /\ Top(At(b, rc[1], rc[2])).player = "white"}),
     black |-> Cardinality({rc \in CellsOf(b) :
                    /\ Len(At(b, rc[1], rc[2])) > 0
                    /\ Top(At(b, rc[1], rc[2])).player # "white"})]

\* Number of stacks whose top piece is flat and satisfies the owner test.
\* In the source every flat top that is not white's is counted for black.
countFlatStones(b) ==
    LET flatTop(rc) == /\ Len(At(b, rc[1], rc[2])) > 0
                       /\ Top(At(b, rc[1], rc[2])).type = "flat"
    IN  [white |-> Cardinality({rc \in CellsOf(b) :
                        flatTop(rc) /\ Top(At(b, rc[1], rc[2])).player = "white"}),
         black |-> Cardinality({rc \in CellsOf(b) :
                        flatTop(rc) /\ Top(At(b, rc[1], rc[2])).player # "white"})]

\* hasPlayerRunOutOfPieces asking for both reserves to be empty.
hasPlayerRunOutOfPiecesBoth(wPieces, bPieces) ==
    /\ (wPieces.flat <= 0 /\ wPieces.capstone <= 0)
    /\ (bPieces.flat <= 0 /\ bPieces.capstone <= 0)

hasPlayerRunOutOfPieces(wPieces, bPieces) ==
    \/ (wPieces.flat <= 0 /\ wPieces.capstone <= 0)
    \/ (bPieces.flat <= 0 /\ bPieces.capstone <= 0)

checkTak(b, player) ==
    \E rc \in CellsOf(b) :
        /\ Len(At(b, rc[1], rc[2])) = 0
        /\ checkRoad(WithStack(b, rc[1], rc[2], << Piece("flat", player) >>), player)

\* takWarningOf looking at white alone.
takWarningOfWhite(b) ==
    IF checkTak(b, "white") THEN "white" ELSE "none"

\* The advisory part of determineWinner (its last statements).
takWarningOf(b) ==
    IF checkTak(b, "white") THEN "white"
    ELSE IF checkTak(b, "black") THEN "black"
    ELSE "none"

\* determineWinner with the tally made before the roads are looked at: a
\* full board or an empty reserve would be settled by flats although a
\* road stands.
determineWinnerFlatFirst(b, wPieces, bPieces, activePlayer) ==
    LET whiteHasRoad == checkRoad(b, "white")
        blackHasRoad == checkRoad(b, "black")
        flatCounts   == countFlatStones(b)
    IN  IF isBoardFull(b) \/ hasPlayerRunOutOfPieces(wPieces, bPieces)
        THEN IF flatCounts.white > flatCounts.black
             THEN [winner |-> "white", winCondition |-> "flat"]
             ELSE IF flatCounts.black > flatCounts.white
             THEN [winner |-> "black", winCondition |-> "flat"]
             ELSE [winner |-> "draw", winCondition |-> "flat"]
        ELSE IF whiteHasRoad /\ blackHasRoad
        THEN [winner |-> activePlayer, winCondition |-> "road"]
        ELSE IF whiteHasRoad
        THEN [winner |-> "white", winCondition |-> "road"]
        ELSE IF blackHasRoad
        THEN [winner |-> "black", winCondition |-> "road"]
        ELSE [winner |-> "none", winCondition |-> "none"]

\* determineWinner without its first branch, black's road looked at first:
\* two roads at once would always be black's win.
determineWinnerBlackFirst(b, wPieces, bPieces, activePlayer) ==
    LET whiteHasRoad == checkRoad(b, "white")
        blackHasRoad == checkRoad(b, "black")
        flatCounts   == countFlatStones(b)
    IN  IF blackHasRoad
        THEN [winner |-> "black", winCondition |-> "road"]
        ELSE IF whiteHasRoad
        THEN [winner |-> "white", winCondition |-> "road"]
        ELSE IF isBoardFull(b) \/ hasPlayerRunOutOfPieces(wPieces, bPieces)
        THEN IF flatCounts.white > flatCounts.black
             THEN [winner |-> "white", winCondition |-> "flat"]
             ELSE IF flatCounts.black > flatCounts.white
             THEN [winner |-> "black", winCondition |-> "flat"]
             ELSE [winner |-> "draw", winCondition |-> "flat"]
        ELSE [winner |-> "none", winCondition |-> "none"]

\* The terminal part of determineWinner; "none" stands for a field the
\* source leaves undefined. The advisory it returns when there is no winner
\* is takWarningOf of the same board.
determineWinner(b, wPieces, bPieces, activePlayer) ==
    LET whiteHasRoad == checkRoad(b, "white")
        blackHasRoad == checkRoad(b, "black")
        flatCounts   == countFlatStones(b)
    IN  IF whiteHasRoad /\ blackHasRoad
        THEN [winner |-> activePlayer, winCondition |-> "road"]
        ELSE IF whiteHasRoad
        THEN [winner |-> "white", winCondition |-> "road"]
        ELSE IF blackHasRoad
        THEN [winner |-> "black", winCondition |-> "road"]
        ELSE IF isBoardFull(b) \/ hasPlayerRunOutOfPieces(wPieces, bPieces)
        THEN IF flatCounts.white > flatCounts.black
             THEN [winner |-> "white", winCondition |-> "flat"]
             ELSE IF flatCounts.black > flatCounts.white
             THEN [winner |-> "black", winCondition |-> "flat"]
             ELSE [winner |-> "draw", winCondition |-> "flat"]
        ELSE [winner |-> "none", winCondition |-> "none"]

-----------------------------------------------------------------------------
(* Requests *)

\* playerColorOf with the last branch taken by everyone who is not white:
\* a stranger would play black.
playerColorOfAnyone(u) ==
    IF whitePlayer = u THEN "white" ELSE "black"

\* The colour the handlers resolve a user to; "none" for a stranger.
playerColorOf(u) ==
    IF whitePlayer = u THEN "white"
    ELSE IF blackPlayer = u THEN "black"
    ELSE "none"

RECURSIVE SumSeq(_)
SumSeq(s) == IF Len(s) = 0 THEN 0 ELSE s[1] + SumSeq(Tail(s))

PiecesOnBoard(b) ==
    LET RECURSIVE rowSum(_, _)
        rowSum(r, c) == IF c > Len(b) THEN 0 ELSE Len(b[r][c]) + rowSum(r, c + 1)
        RECURSIVE allSum(_)
        allSum(r) == IF r > Len(b) THEN 0 ELSE rowSum(r, 1) + allSum(r + 1)
    IN  allSum(1)

\* pieces of the given owner on the board, whatever their kind or height
PiecesOf(b, p) ==
    LET RECURSIVE inStack(_, _)
        inStack(s, i) == IF i > Len(s) THEN 0
                         ELSE (IF s[i].player = p THEN 1 ELSE 0) + inStack(s, i + 1)
        RECURSIVE rowSum(_, _)
        rowSum(r, c) == IF c > Len(b) THEN 0 ELSE inStack(b[r][c], 1) + rowSum(r, c + 1)
        RECURSIVE allSum(_)
        allSum(r) == IF r > Len(b) THEN 0 ELSE rowSum(r, 1) + allSum(r + 1)
    IN  allSum(1)

WallsOnBoard(b) ==
    Cardinality({rc \in CellsOf(b) :
        /\ Len(At(b, rc[1], rc[2])) > 0
        /\ Top(At(b, rc[1], rc[2])).type = "standing"})

\* Every accepted placement adds one piece and no stack move adds any.
StackMovesMade == moveCount - PiecesOnBoard(board)

\* What a request that returned leaves in last: the handler and the colour
\* it resolved the caller to.
Returned(op, by) == [op |-> op, ok |-> TRUE, by |-> by, err |-> "ok"]

\* What a request that threw leaves in last: the handler and the message
\* of the Error.
Thrown(op, err) == [op |-> op, ok |-> FALSE, by |-> "none", err |-> err]

\* A handler that throws writes nothing: every throw of a handler comes
\* before its first write, and a mutation that throws is rolled back.
Reject(op, err) ==
    /\ last' = Thrown(op, err)
    /\ UNCHANGED << gameVars, asked >>

Init ==
    /\ status = "none"
    /\ boardSize = 0
    /\ board = << >>
    /\ currentPlayer = "white"
    /\ whitePlayer = "none"
    /\ blackPlayer = "none"
    /\ moveCount = 0
    /\ whitePieces = [flat |-> 0, capstone |-> 0]
    /\ blackPieces = [flat |-> 0, capstone |-> 0]
    /\ isOpeningPhase = TRUE
    /\ winner = "none"
    /\ winCondition = "none"
    /\ movesRecorded = 0
    /\ asked = [boardSize |-> 0, komi |-> 0]
    /\ last = Returned("none", "none")

\* The args validator of createGame has the single field boardSize; a
\* request that carries a komi field (k > 0 half points, as the creation
\* form sends it) fails validation before the handler runs.
createGameError(size, k) ==
    IF k # 0 THEN "Object contains extra field komi"
    ELSE IF size \notin {3, 4, 5, 6, 7, 8} THEN "Board size must be 3, 4, 5, 6, 7, or 8"
    ELSE "ok"

createGame(u, size, k) ==
    /\ status = "none"
    /\ asked' = [boardSize |-> size, komi |-> k]
    /\ IF createGameError(size, k) # "ok"
       THEN /\ last' = Thrown("create", createGameError(size, k))
            /\ UNCHANGED gameVars
       ELSE /\ boardSize' = size
            /\ board' = createEmptyBoard(size)
            /\ currentPlayer' = "white"
            /\ whitePlayer' = u
            /\ status' = "waiting"
            /\ moveCount' = 0
            /\ whitePieces' = getInitialPieces(size)
            /\ blackPieces' = getInitialPieces(size)
            /\ isOpeningPhase' = TRUE
            /\ last' = Returned("create", "none")
            /\ UNCHANGED << blackPlayer, winner, winCondition, movesRecorded >>

\* joinGameError without the test of the status: a game could be joined
\* whatever its status.
joinGameErrorAnyStatus(u) ==
    IF status = "none" THEN "Game not found"
    ELSE IF whitePlayer = u THEN "Cannot join your own game"
    ELSE "ok"

joinGameError(u) ==
    IF status = "none" THEN "Game not found"
    ELSE IF status # "waiting" THEN "Game is not available to join"
    ELSE IF whitePlayer = u THEN "Cannot join your own game"
    ELSE "ok"

joinGame(u) ==
    IF joinGameError(u) # "ok"
    THEN Reject("join", joinGameError(u))
    ELSE /\ blackPlayer' = u
         /\ status' = "active"
         /\ last' = Returned("join", "none")
         /\ UNCHANGED << asked, boardSize, board, currentPlayer, whitePlayer, moveCount,
                         whitePieces, blackPieces, isOpeningPhase, winner,
                         winCondition, movesRecorded >>

\* waitingGameFor without the test of the white player.
waitingGameForAnyone(u, size) ==
    /\ status = "waiting"
    /\ boardSize = size

\* The query of findGame finds the game: it is waiting, has the board size
\* asked for, and its white player is another user.
waitingGameFor(u, size) ==
    /\ status = "waiting"
    /\ boardSize = size
    /\ whitePlayer # u

\* findGame joins the game when its query finds it and calls createGame
\* otherwise; when a game is stored already the game createGame makes is
\* another one, and the stored one stays as it is. Like every Convex
\* mutation the handler runs as one transaction.
findGame(u, size) ==
    IF waitingGameFor(u, size)
    THEN /\ blackPlayer' = u
         /\ status' = "active"
         /\ last' = Returned("find", "none")
         /\ UNCHANGED << asked, boardSize, board, currentPlayer, whitePlayer, moveCount,
                         whitePieces, blackPieces, isOpeningPhase, winner,
                         winCondition, movesRecorded >>
    ELSE IF status = "none"
    THEN createGame(u, size, 0)
    ELSE /\ last' = IF createGameError(size, 0) # "ok"
                    THEN Thrown("find", createGameError(size, 0))
                    ELSE Returned("find", "none")
         /\ UNCHANGED << gameVars, asked >>

-----------------------------------------------------------------------------
(* placePiece *)

\* nextMoveCount leaving the count as it was.
nextMoveCountSame(n) == n

\* The moveCount both move handlers write: game.moveCount + 1.
nextMoveCount(n) == n + 1

\* nextPlayer handing the turn back to the player who moved.
nextPlayerSame(playerColor) == playerColor

\* The currentPlayer both move handlers write:
\* playerColor === "white" ? "black" : "white".
nextPlayer(playerColor) == IF playerColor = "white" THEN "black" ELSE "white"

\* The takWarning placePiece and movePieces return with the board they
\* write. determineWinner sets it in its last return only, after every
\* return with a winner; placePiece does not call determineWinner on the
\* first ply (judged is false then) and returns it undefined, "none" here.
takWarningReturned(newBoard, wPieces, bPieces, activePlayer, judged) ==
    IF ~judged
    THEN "none"
    ELSE IF determineWinner(newBoard, wPieces, bPieces, activePlayer).winner # "none"
    THEN "none"
    ELSE takWarningOf(newBoard)

\* isOpeningMove true on the first ply only.
isOpeningMoveFirstPly == isOpeningPhase /\ moveCount < 1

\* The test both move handlers make for the opening:
\* (game.isOpeningPhase ?? false) && game.moveCount < 2.
isOpeningMove == isOpeningPhase /\ moveCount < 2

\* openingError that lets every kind of piece through.
openingErrorAnyKind(pieceType) == "ok"

\* The check placePiece makes of the kind of an opening piece.
openingError(pieceType) ==
    IF pieceType # "flat" THEN "Opening moves must be flat stones" ELSE "ok"

\* pieceOwnerOf giving every piece to the player who places it.
pieceOwnerOfActor(playerColor) == playerColor

\* The owner placePiece gives the piece: the opponent in the opening, else
\* the acting player.
pieceOwnerOf(playerColor) ==
    IF isOpeningMove
    THEN (IF playerColor = "white" THEN "black" ELSE "white")
    ELSE playerColor

\* isStillOpeningPhase with the bound off by one.
isStillOpeningPhaseLate(newMoveCount) == isOpeningPhase /\ newMoveCount <= 2

\* The isOpeningPhase placePiece writes.
isStillOpeningPhase(newMoveCount) == isOpeningPhase /\ newMoveCount < 2

\* placePieceError without the test of the capstones left.
placePieceErrorAnyCapstone(u, row, col, pieceType) ==
    IF status = "none" THEN "Game not found"
    ELSE IF status # "active" THEN "Game is not active"
    ELSE IF playerColorOf(u) = "none" THEN "You are not a player in this game"
    ELSE IF currentPlayer # playerColorOf(u) THEN "It's not your turn"
    ELSE IF ~isValidPosition(row, col, boardSize) THEN "Invalid position"
    ELSE IF Len(At(board, row, col)) > 0 THEN "Position is not empty"
    ELSE IF isOpeningMove
    THEN openingError(pieceType)
    ELSE LET pieces == IF playerColorOf(u) = "white" THEN whitePieces ELSE blackPieces
         IN  IF pieceType # "capstone" /\ pieces.flat <= 0
             THEN "No flat stones remaining"
             ELSE "ok"

\* placePieceError without the test that the cell is empty.
placePieceErrorAnyCell(u, row, col, pieceType) ==
    IF status = "none" THEN "Game not found"
    ELSE IF status # "active" THEN "Game is not active"
    ELSE IF playerColorOf(u) = "none" THEN "You are not a player in this game"
    ELSE IF currentPlayer # playerColorOf(u) THEN "It's not your turn"
    ELSE IF ~isValidPosition(row, col, boardSize) THEN "Invalid position"
    ELSE IF isOpeningMove
    THEN openingError(pieceType)
    ELSE LET pieces == IF playerColorOf(u) = "white" THEN whitePieces ELSE blackPieces
         IN  IF pieceType = "capstone" /\ pieces.capstone <= 0
             THEN "No capstones remaining"
             ELSE IF pieceType # "capstone" /\ pieces.flat <= 0
             THEN "No flat stones remaining"
             ELSE "ok"

\* placePieceError keeping the last flat stone of a reserve back.
placePieceErrorKeepsOne(u, row, col, pieceType) ==
    IF status = "none" THEN "Game not found"
    ELSE IF status # "active" THEN "Game is not active"
    ELSE IF playerColorOf(u) = "none" THEN "You are not a player in this game"
    ELSE IF currentPlayer # playerColorOf(u) THEN "It's not your turn"
    ELSE IF ~isValidPosition(row, col, boardSize) THEN "Invalid position"
    ELSE IF Len(At(board, row, col)) > 0 THEN "Position is not empty"
    ELSE IF isOpeningMove
    THEN openingError(pieceType)
    ELSE LET pieces == IF playerColorOf(u) = "white" THEN whitePieces ELSE blackPieces
         IN  IF pieceType = "capstone" /\ pieces.capstone <= 0
             THEN "No capstones remaining"
             ELSE IF pieceType # "capstone" /\ pieces.flat <= 1
             THEN "No flat stones remaining"
             ELSE "ok"

\* The checks of placePiece in the order the handler makes them.
placePieceError(u, row, col, pieceType) ==
    IF status = "none" THEN "Game not found"
    ELSE IF status # "active" THEN "Game is not active"
    ELSE IF playerColorOf(u) = "none" THEN "You are not a player in this game"
    ELSE IF currentPlayer # playerColorOf(u) THEN "It's not your turn"
    ELSE IF ~isValidPosition(row, col, boardSize) THEN "Invalid position"
    ELSE IF Len(At(board, row, col)) > 0 THEN "Position is not empty"
    ELSE IF isOpeningMove
    THEN openingError(pieceType)
    ELSE LET pieces == IF playerColorOf(u) = "white" THEN whitePieces ELSE blackPieces
         IN  IF pieceType = "capstone" /\ pieces.capstone <= 0
             THEN "No capstones remaining"
             ELSE IF pieceType # "capstone" /\ pieces.flat <= 0
             THEN "No flat stones remaining"
             ELSE "ok"

\* placedPieces taking every placed piece from the flat reserve.
placedPiecesFlatOnly(pieces, isMine, opening, pieceType) ==
    IF opening \/ ~isMine THEN pieces
    ELSE [pieces EXCEPT !.flat = @ - 1]

\* The reserves placePiece writes: untouched by an opening move, else the
\* acting player's capstone or flat count less one.
placedPieces(pieces, isMine, opening, pieceType) ==
    IF opening \/ ~isMine THEN pieces
    ELSE IF pieceType = "capstone"
    THEN [pieces EXCEPT !.capstone = @ - 1]
    ELSE [pieces EXCEPT !.flat = @ - 1]

placePiece(u, row, col, pieceType) ==
    LET err == placePieceError(u, row, col, pieceType)
    IN
    IF err # "ok"
       THEN Reject("place", err)
       ELSE LET playerColor   == playerColorOf(u)
                pieceOwner    == pieceOwnerOf(playerColor)
                newBoard      == WithStack(board, row, col,
                                           Append(At(board, row, col),
                                                  Piece(pieceType, pieceOwner)))
                newWhitePieces == placedPieces(whitePieces, playerColor = "white",
                                               isOpeningMove, pieceType)
                newBlackPieces == placedPieces(blackPieces, playerColor = "black",
                                               isOpeningMove, pieceType)
                result == IF ~isOpeningPhase \/ moveCount >= 1
                          THEN determineWinner(newBoard, newWhitePieces,
                                               newBlackPieces, playerColor)
                          ELSE [winner |-> "none", winCondition |-> "none"]
                newMoveCount == nextMoveCount(moveCount)
            IN  /\ movesRecorded' = movesRecorded + 1
                /\ board' = newBoard
                /\ currentPlayer' = nextPlayer(playerColor)
                /\ moveCount' = newMoveCount
                /\ whitePieces' = newWhitePieces
                /\ blackPieces' = newBlackPieces
                /\ isOpeningPhase' = isStillOpeningPhase(newMoveCount)
                /\ IF result.winner # "none"
                   THEN /\ status' = "finished"
                        /\ winner' = result.winner
                        /\ winCondition' = result.winCondition
                   ELSE UNCHANGED << status, winner, winCondition >>
                /\ last' = Returned("place", playerColor)
                /\ UNCHANGED << asked, boardSize, whitePlayer, blackPlayer >>

-----------------------------------------------------------------------------
(* movePieces *)

Abs(x) == IF x < 0 THEN -x ELSE x

Sign(x) == IF x = 0 THEN 0 ELSE IF x < 0 THEN -1 ELSE 1

\* invalidStackSize without the test against the board size.
invalidStackSizeNoLimit(stackSize, fromStack) ==
    \/ stackSize <= 0
    \/ stackSize > Len(fromStack)

\* The test of args.stackSize in movePieces.
invalidStackSize(stackSize, fromStack) ==
    \/ stackSize <= 0
    \/ stackSize > Len(fromStack)
    \/ stackSize > boardSize

\* dropPatternError without the test of each count.
dropPatternErrorAnyCount(dropPattern, distance, stackSize) ==
    IF Len(dropPattern) # distance
    THEN "Drop pattern length must match distance"
    ELSE IF SumSeq(dropPattern) # stackSize
    THEN "Drop pattern must account for all pieces"
    ELSE "ok"

\* The tests of args.dropPattern in movePieces.
dropPatternError(dropPattern, distance, stackSize) ==
    IF Len(dropPattern) # distance
    THEN "Drop pattern length must match distance"
    ELSE IF SumSeq(dropPattern) # stackSize
    THEN "Drop pattern must account for all pieces"
    ELSE IF \E i \in 1..Len(dropPattern) : dropPattern[i] <= 0
    THEN "All drop counts must be positive"
    ELSE "ok"

\* The checks movePieces makes before it builds the path, in order.
movePiecesError(u, fromRow, fromCol, toRow, toCol, stackSize, dropPattern) ==
    IF status = "none" THEN "Game not found"
    ELSE IF status # "active" THEN "Game is not active"
    ELSE IF playerColorOf(u) = "none" THEN "You are not a player in this game"
    ELSE IF currentPlayer # playerColorOf(u) THEN "It's not your turn"
    ELSE IF isOpeningMove
    THEN "Cannot move pieces during opening phase"
    ELSE IF \/ ~isValidPosition(fromRow, fromCol, boardSize)
            \/ ~isValidPosition(toRow, toCol, boardSize)
    THEN "Invalid position"
    ELSE IF Len(At(board, fromRow, fromCol)) = 0 THEN "No pieces to move"
    ELSE IF Top(At(board, fromRow, fromCol)).player # playerColorOf(u)
    THEN "You don't control the top piece"
    ELSE IF invalidStackSize(stackSize, At(board, fromRow, fromCol))
    THEN "Invalid stack size"
    ELSE LET rowDiff == toRow - fromRow
             colDiff == toCol - fromCol
         IN  IF (rowDiff # 0 /\ colDiff # 0) \/ (rowDiff = 0 /\ colDiff = 0)
             THEN "Must move in a straight line"
             ELSE dropPatternError(dropPattern, Abs(rowDiff) + Abs(colDiff), stackSize)

\* The cells from the one next to the origin to the destination.
pathOf(fromRow, fromCol, toRow, toCol) ==
    LET rowDiff  == toRow - fromRow
        colDiff  == toCol - fromCol
        distance == Abs(rowDiff) + Abs(colDiff)
    IN  [i \in 1..distance |->
            [row |-> fromRow + Sign(rowDiff) * i, col |-> fromCol + Sign(colDiff) * i]]

\* droppedPieces taking a single piece whatever the drop count.
droppedPiecesOne(piecesRemaining, dropCount) == LastN(piecesRemaining, 1)

\* The pieces one step of the walk takes off piecesRemaining:
\* piecesRemaining.splice(-dropCount) takes the last dropCount of them.
droppedPieces(piecesRemaining, dropCount) == LastN(piecesRemaining, dropCount)

\* What that step leaves in piecesRemaining.
piecesLeft(piecesRemaining, dropCount) == DropLastN(piecesRemaining, dropCount)

\* wallError letting a capstone on top of the carry go on past a wall.
wallErrorCapstonePasses(targetStack, piecesRemaining, isLast, dropCount) ==
    IF Len(targetStack) > 0 /\ Top(targetStack).type = "standing"
          /\ Top(piecesRemaining).type # "capstone"
    THEN "Only capstones can move onto standing stones"
    ELSE "ok"

\* The Error a cell of the path topped by a standing stone throws:
\* movingTopPiece is the last of piecesRemaining.
wallError(targetStack, piecesRemaining, isLast, dropCount) ==
    IF Len(targetStack) > 0 /\ Top(targetStack).type = "standing"
    THEN IF Top(piecesRemaining).type # "capstone"
         THEN "Only capstones can move onto standing stones"
         ELSE IF ~(isLast /\ dropCount = 1)
         THEN "Capstone can only flatten standing stone if it's the final piece dropped"
         ELSE "ok"
    ELSE "ok"

\* flattened leaving the standing stone as it is.
flattenedNot(targetStack) == targetStack

\* The target stack after topPieceOnTarget.type = "flat" where its top piece
\* is a standing stone.
flattened(targetStack) ==
    IF Len(targetStack) > 0 /\ Top(targetStack).type = "standing"
    THEN [targetStack EXCEPT ![Len(targetStack)].type = "flat"]
    ELSE targetStack

\* capstoneError for a carry whose last piece is not a capstone only.
capstoneErrorUnlessCapstone(targetStack, piecesRemaining) ==
    IF /\ Len(targetStack) > 0
       /\ Top(targetStack).type = "capstone"
       /\ Top(piecesRemaining).type # "capstone"
    THEN "Cannot move onto capstones"
    ELSE "ok"

\* The Error a cell of the path topped by a capstone throws.
capstoneError(targetStack, piecesRemaining) ==
    IF Len(targetStack) > 0 /\ Top(targetStack).type = "capstone"
    THEN "Cannot move onto capstones"
    ELSE "ok"

RECURSIVE walkPath(_, _, _, _, _)

\* The loop over the path, from its i-th cell on (i counts from 1). Returns
\* the error thrown, or "ok" with the board the loop leaves.
walkPath(newBoard, piecesRemaining, path, dropPattern, i) ==
    IF i > Len(path)
    THEN [err |-> "ok", board |-> newBoard]
    ELSE LET pos         == path[i]
             dropCount   == dropPattern[i]
             targetStack == At(newBoard, pos.row, pos.col)
             atWall      == wallError(targetStack, piecesRemaining,
                                      i = Len(path), dropCount)
             atCapstone  == capstoneError(flattened(targetStack), piecesRemaining)
         IN  IF atWall # "ok"
             THEN [err |-> atWall, board |-> newBoard]
             ELSE IF atCapstone # "ok"
             THEN [err |-> atCapstone, board |-> newBoard]
             ELSE walkPath(WithStack(newBoard, pos.row, pos.col,
                               flattened(targetStack)
                                   \o droppedPieces(piecesRemaining, dropCount)),
                           piecesLeft(piecesRemaining, dropCount),
                           path, dropPattern, i + 1)

\* The board movePieces computes for a request that passed movePiecesError.
movedBoard(fromRow, fromCol, toRow, toCol, stackSize, dropPattern) ==
    LET fromStack    == At(board, fromRow, fromCol)
        movingPieces == LastN(fromStack, stackSize)
        lifted       == WithStack(board, fromRow, fromCol, DropLastN(fromStack, stackSize))
    IN  walkPath(lifted, movingPieces, pathOf(fromRow, fromCol, toRow, toCol),
                 dropPattern, 1)

\* RejectInWalk with the walk made on the stored board itself: the drops
\* made before the throw would stay.
RejectInWalkShared(walk) ==
    /\ last' = Thrown("move", walk.err)
    /\ board' = walk.board
    /\ UNCHANGED << asked, status, boardSize, currentPlayer, whitePlayer, blackPlayer,
                    moveCount, whitePieces, blackPieces, isOpeningPhase, winner,
                    winCondition, movesRecorded >>

\* A throw inside the loop over the path: newBoard is a deep copy of the
\* stored board and is dropped with the request.
RejectInWalk(walk) == Reject("move", walk.err)

movePieces(u, fromRow, fromCol, toRow, toCol, stackSize, dropPattern) ==
    LET err  == movePiecesError(u, fromRow, fromCol, toRow, toCol, stackSize, dropPattern)
        walk == movedBoard(fromRow, fromCol, toRow, toCol, stackSize, dropPattern)
    IN
    IF err # "ok"
       THEN Reject("move", err)
       ELSE IF walk.err # "ok"
       THEN RejectInWalk(walk)
       ELSE LET playerColor == playerColorOf(u)
                newBoard    == walk.board
                result      == determineWinner(newBoard, whitePieces, blackPieces,
                                               playerColor)
            IN  /\ movesRecorded' = movesRecorded + 1
                /\ board' = newBoard
                /\ currentPlayer' = nextPlayer(playerColor)
                /\ moveCount' = nextMoveCount(moveCount)
                /\ IF result.winner # "none"
                   THEN /\ status' = "finished"
                        /\ winner' = result.winner
                        /\ winCondition' = result.winCondition
                   ELSE UNCHANGED << status, winner, winCondition >>
                /\ last' = Returned("move", playerColor)
                /\ UNCHANGED << asked, boardSize, whitePlayer, blackPlayer, whitePieces,
                                blackPieces, isOpeningPhase >>

-----------------------------------------------------------------------------
(* resign *)

\* resignWinner naming the player who resigns.
resignWinnerSelf(playerColor) == playerColor

\* The winner resign writes: the other colour.
resignWinner(playerColor) == IF playerColor = "white" THEN "black" ELSE "white"

\* resignError without the test of the status.
resignErrorAnyStatus(u) ==
    IF status = "none" THEN "Game not found"
    ELSE IF playerColorOf(u) = "none" THEN "You are not a player in this game"
    ELSE "ok"

resignError(u) ==
    IF status = "none" THEN "Game not found"
    ELSE IF status # "active" THEN "Game is not active"
    ELSE IF playerColorOf(u) = "none" THEN "You are not a player in this game"
    ELSE "ok"

resign(u) ==
    IF resignError(u) # "ok"
    THEN Reject("resign", resignError(u))
    ELSE /\ status' = "finished"
         /\ winner' = resignWinner(playerColorOf(u))
         /\ winCondition' = "resign"
         /\ last' = Returned("resign", playerColorOf(u))
         /\ UNCHANGED << asked, boardSize, board, currentPlayer, whitePlayer, blackPlayer,
                         moveCount, whitePieces, blackPieces, isOpeningPhase,
                         movesRecorded >>

-----------------------------------------------------------------------------
(* getGameMoves: the notation of a recorded move. A string is modelled as
   the sequence of its characters. *)

\* The decimal digits of a number that is not negative, as a template
\* literal `${n}` writes them.
RECURSIVE NumberToString(_)
NumberToString(n) ==
    LET digit == << "0", "1", "2", "3", "4", "5", "6", "7", "8", "9" >>[(n % 10) + 1]
    IN  IF n < 10 THEN << digit >> ELSE NumberToString(n \div 10) \o << digit >>

\* String.fromCharCode for the codes of the letters a to z.
fromCharCode(code) ==
    << << "a", "b", "c", "d", "e", "f", "g", "h", "i", "j", "k", "l", "m",
          "n", "o", "p", "q", "r", "s", "t", "u", "v", "w", "x", "y", "z" >>[code - 96] >>

\* dropPattern.join("")
RECURSIVE joinPattern(_)
joinPattern(dropPattern) ==
    IF dropPattern = << >> THEN << >>
    ELSE NumberToString(Head(dropPattern)) \o joinPattern(Tail(dropPattern))

\* The row of the moves table that placePiece inserts.
PlaceRecord(row, col, pieceType) ==
    [type |-> "place", position |-> [row |-> row, col |-> col], pieceType |-> pieceType]

\* The row of the moves table that movePieces inserts.
MoveRecord(fromRow, fromCol, toRow, toCol, stackSize, dropPattern) ==
    [type |-> "move", from |-> [row |-> fromRow, col |-> fromCol],
     to |-> [row |-> toRow, col |-> toCol],
     stackSize |-> stackSize, dropPattern |-> dropPattern]

generateMoveNotation(move) ==
    IF move.type = "place"
    THEN LET pos   == fromCharCode(97 + move.position.col)
                        \o NumberToString(move.position.row + 1)
             piece == IF move.pieceType = "capstone" THEN << "C" >>
                      ELSE IF move.pieceType = "standing" THEN << "S" >>
                      ELSE << >>
         IN  piece \o pos
    ELSE IF move.type = "move"
    THEN LET fromPos == fromCharCode(97 + move.from.col) \o NumberToString(move.from.row + 1)
             toPos   == fromCharCode(97 + move.to.col) \o NumberToString(move.to.row + 1)
             pattern == joinPattern(move.dropPattern)
         IN  NumberToString(move.stackSize) \o fromPos \o pattern \o toPos
    ELSE << >>

-----------------------------------------------------------------------------
(* The requests explored *)

Square(size) == (0..(size - 1)) \X (0..(size - 1))

Steps == {<<0, 1>>, <<0, -1>>, <<1, 0>>, <<-1, 0>>}

\* Drop patterns over at most two cells that are well formed for a carry
\* count a board of the given size allows, and one for a count it does not.
GoodPatterns(size) ==
    {<<n>> : n \in 1..size} \cup
    {<<a, b>> : a \in 1..(size - 1), b \in 1..(size - 1)}

MoveCmd(u, fr, fc, tr, tc, n, dp) ==
    [user |-> u, fromRow |-> fr, fromCol |-> fc, toRow |-> tr, toCol |-> tc,
     stackSize |-> n, dropPattern |-> dp]

\* Stack moves by users from a cell of from to a cell of to, along a line,
\* the carry count matching the drop pattern.
LineMoves(users, from, to, patterns) ==
    {c \in {MoveCmd(u, f[1], f[2], f[1] + d[1] * Len(dp), f[2] + d[2] * Len(dp),
                    SumSeq(dp), dp) :
                u \in users, f \in from, d \in Steps, dp \in patterns} :
        <<c.toRow, c.toCol>> \in to}

\* Placements <<user, row, col, type>> by users on the given cells.
Placements(users, cells, types) ==
    {<<u, rc[1], rc[2], t>> : u \in users, rc \in cells, t \in types}

\* The placePiece requests of a set of commands that the handler accepts,
\* while fewer than plyCap plies were accepted.
PlaceAccepted(cmds, plyCap) ==
    /\ moveCount < plyCap
    /\ \E c \in cmds :
            /\ placePieceError(c[1], c[2], c[3], c[4]) = "ok"
            /\ c[4] = "standing" => WallsOnBoard(board) < MaxWalls
            /\ placePiece(c[1], c[2], c[3], c[4])

\* Those in which it throws, tried while fewer than plyCap plies were
\* accepted. The requests that throw the same Error take the same branch of
\* the handler, so one step stands for all of them.
PlaceRejected(cmds, plyCap) ==
    /\ moveCount < plyCap
    /\ \E err \in {placePieceError(c[1], c[2], c[3], c[4]) : c \in cmds} \ {"ok"} :
            Reject("place", err)

\* The Error a movePieces request throws, before the walk or in it.
moveError(c) ==
    LET err == movePiecesError(c.user, c.fromRow, c.fromCol, c.toRow, c.toCol,
                               c.stackSize, c.dropPattern)
    IN  IF err # "ok"
        THEN err
        ELSE movedBoard(c.fromRow, c.fromCol, c.toRow, c.toCol,
                        c.stackSize, c.dropPattern).err

moveThrows(c) == moveError(c) # "ok"

\* The movePieces requests of a set of commands that the handler accepts,
\* while fewer than plyCap plies and moveCap stack moves were accepted.
MoveAccepted(cmds, plyCap, moveCap) ==
    /\ moveCount < plyCap
    /\ StackMovesMade < moveCap
    /\ \E c \in cmds :
            /\ ~moveThrows(c)
            /\ movePieces(c.user, c.fromRow, c.fromCol, c.toRow, c.toCol,
                          c.stackSize, c.dropPattern)

MoveRejected(cmds, plyCap) ==
    /\ moveCount < plyCap
    /\ \/ \E err \in {movePiecesError(c.user, c.fromRow, c.fromCol, c.toRow, c.toCol,
                                         c.stackSize, c.dropPattern) : c \in cmds}
                          \ {"ok"} :
                Reject("move", err)
       \/ \E walk \in {movedBoard(c.fromRow, c.fromCol, c.toRow, c.toCol,
                                   c.stackSize, c.dropPattern) :
                            c \in {d \in cmds :
                                movePiecesError(d.user, d.fromRow, d.fromCol, d.toRow,
                                                d.toCol, d.stackSize, d.dropPattern)
                                    = "ok"}} :
                walk.err # "ok" /\ RejectInWalk(walk)

\* The two requests that open a game: w creates it, b joins it.
OpenGame(w, b, size) ==
    \/ /\ createGameError(size, 0) = "ok"
       /\ createGame(w, size, 0)
    \/ /\ whitePlayer = w
       /\ joinGameError(b) = "ok"
       /\ joinGame(b)

(* Every request, for the first plies of a game on the smallest board. *)

CreateRequests ==
    \E u \in Creators, size \in SizesAsked, k \in 0..MaxKomi : createGame(u, size, k)

JoinRequests ==
    /\ moveCount < MaxPly
    /\ \E u \in Joiners : joinGame(u)

ResignRequests ==
    /\ moveCount < MaxPly
    /\ \E u \in Users : resign(u)

PlaceCmds ==
    Placements({"u1", "u2"}, Square(3), PieceTypes) \cup
    {<<"u3", 0, 0, "flat">>, <<"u1", -1, 0, "flat">>, <<"u2", 0, 3, "flat">>}

\* Malformed stack moves, one or two for each way of being malformed.
OddMoves ==
    { MoveCmd("u3", 0, 0, 0, 1, 1, <<1>>),
      MoveCmd("u1", 0, 0, -1, 0, 1, <<1>>),
      MoveCmd("u2", 0, 0, -1, 0, 1, <<1>>),
      MoveCmd("u1", 1, 1, 1, 1, 1, <<1>>),
      MoveCmd("u2", 1, 1, 1, 1, 1, <<1>>),
      MoveCmd("u1", 0, 0, 1, 1, 1, <<1>>),
      MoveCmd("u2", 0, 0, 1, 1, 1, <<1>>),
      MoveCmd("u1", 1, 1, 1, 2, 0, <<>>),
      MoveCmd("u2", 1, 1, 1, 2, 0, <<>>),
      MoveCmd("u1", 1, 1, 1, 2, 1, <<1, 1>>),
      MoveCmd("u2", 1, 1, 1, 2, 1, <<1, 1>>),
      MoveCmd("u1", 1, 0, 1, 2, 1, <<1, 0>>),
      MoveCmd("u2", 1, 0, 1, 2, 1, <<1, 0>>),
      MoveCmd("u1", 1, 0, 1, 2, 2, <<1, 2>>),
      MoveCmd("u2", 1, 0, 1, 2, 2, <<1, 2>>) }

MoveCmds ==
    LineMoves({"u1", "u2"}, Square(3), Square(3), GoodPatterns(3)) \cup OddMoves

Next ==
    \/ CreateRequests
    \/ JoinRequests
    \/ PlaceAccepted(PlaceCmds, MaxPly)
    \/ PlaceRejected(PlaceCmds, MaxPly)
    \/ MoveAccepted(MoveCmds, MaxPly, MaxStackMoves)
    \/ MoveRejected(MoveCmds, MaxPly)
    \/ ResignRequests

Spec == Init /\ [][Next]_vars

(* Whole games, each kind played by its own pair of users. *)

\* f1 and f2 fill a 3 x 3 board with flat and standing stones.
FillPlacements == Placements({"f1", "f2"}, Square(3), {"flat", "standing"})

FillGame ==
    \/ OpenGame("f1", "f2", 3)
    \/ PlaceAccepted(FillPlacements, MaxFillPly)

\* s1 and s2 place flats and move stacks on the two lower rows of a 3 x 3
\* board.
StackCells == {rc \in Square(3) : rc[1] >= 1}

StackPlacements == Placements({"s1", "s2"}, StackCells, {"flat"})

StackMoves == LineMoves({"s1", "s2"}, StackCells, StackCells, GoodPatterns(3))

StackGame ==
    \/ OpenGame("s1", "s2", 3)
    \/ PlaceAccepted(StackPlacements, MaxStackPly)
    \/ MoveAccepted(StackMoves, MaxStackPly, MaxStackMoves)

\* l1 and l2 play on a 5 x 5 board until white's reserve is empty: white
\* puts its stones on one cell, black's one stone carries each of them onto
\* a growing stack, and white's first stone steps to and fro meanwhile.
LongPlacements ==
    { <<"l1", 0, 0, "flat">>, <<"l1", 0, 1, "flat">>, <<"l1", 0, 1, "standing">>,
      <<"l1", 2, 2, "capstone">>, <<"l2", 4, 4, "flat">> }

LongMoves ==
    { MoveCmd("l1", 4, 4, 4, 3, 1, <<1>>), MoveCmd("l1", 4, 3, 4, 4, 1, <<1>>),
      MoveCmd("l2", 0, 0, 0, 1, 1, <<1>>), MoveCmd("l2", 0, 1, 0, 0, 1, <<1>>),
      MoveCmd("l2", 0, 1, 0, 0, 2, <<2>>) }

LongGame ==
    \/ OpenGame("l1", "l2", 5)
    \/ PlaceAccepted(LongPlacements, MaxLongPly)
    \/ MoveAccepted(LongMoves, MaxLongPly, MaxLongMoves)

\* c1 and c2 play along the first row of a 5 x 5 board: white places stones
\* of every kind there, black's one stone steps to and fro in the second row.
CapPlacements ==
    Placements({"c1"}, {<<0, c>> : c \in 0..4}, PieceTypes) \cup
    Placements({"c2"}, {<<0, c>> : c \in 0..4}, {"flat"}) \cup
    {<<"c1", 1, 0, "flat">>}

CapMoves ==
    { MoveCmd("c2", 1, 0, 1, 1, 1, <<1>>), MoveCmd("c2", 1, 1, 1, 0, 1, <<1>>) }

CapGame ==
    \/ OpenGame("c1", "c2", 5)
    \/ PlaceAccepted(CapPlacements, MaxCapPly)
    \/ MoveAccepted(CapMoves, MaxCapPly, MaxCapMoves)

\* t1 and t2 play on the first row and one more cell of a 3 x 3 board; they
\* and the stranger t3 try requests of every kind in every state, the
\* finished ones included.
TryUsers == {"t1", "t2", "t3"}

TryCells == {<<0, 0>>, <<0, 1>>, <<0, 2>>, <<1, 0>>}

TryPlacements ==
    Placements(TryUsers, TryCells, PieceTypes) \cup
    {<<"t1", 0, 3, "flat">>, <<"t2", -1, 0, "flat">>}

TryMoves ==
    LineMoves(TryUsers, TryCells, TryCells, GoodPatterns(3)) \cup
    { MoveCmd("t1", 0, 0, 1, 1, 1, <<1>>), MoveCmd("t2", 0, 0, 1, 1, 1, <<1>>),
      MoveCmd("t1", 0, 0, 0, 1, 0, << >>), MoveCmd("t2", 0, 0, 0, 1, 0, << >>),
      MoveCmd("t1", 0, 0, 0, 2, 1, <<1, 0>>), MoveCmd("t2", 0, 0, 0, 2, 1, <<1, 0>>),
      MoveCmd("t1", 0, 0, 0, 2, 2, <<1, 2>>), MoveCmd("t2", 0, 0, 0, 2, 2, <<1, 2>>),
      MoveCmd("t1", 0, 0, 0, 3, 1, <<1>>), MoveCmd("t2", 0, 0, 0, 0, 1, <<1>>),
      MoveCmd("t1", 0, 0, 0, 2, 1, <<1>>), MoveCmd("t2", 0, 0, 0, 2, 1, <<1>>) }

TryJoin ==
    /\ moveCount < MaxTryPly
    /\ \E u \in TryUsers : joinGameError(u) # "ok" /\ joinGame(u)

TryResign ==
    /\ moveCount < MaxTryPly
    /\ \E u \in TryUsers : resign(u)

TryGame ==
    \/ OpenGame("t1", "t2", 3)
    \/ PlaceAccepted(TryPlacements, MaxTryPly)
    \/ PlaceRejected(TryPlacements, MaxTryPly)
    \/ MoveAccepted(TryMoves, MaxTryPly, MaxStackMoves)
    \/ MoveRejected(TryMoves, MaxTryPly)
    \/ TryJoin
    \/ TryResign

SpecTry == Init /\ [][TryGame]_vars

\* h1 and h2 pile stones on a 2 x 2 corner of a 3 x 3 board, where no road
\* fits, and ask for carries of one to four pieces over one cell.
TallCells == {<<0, 0>>, <<0, 1>>, <<1, 0>>, <<1, 1>>}

TallPlacements == Placements({"h1", "h2"}, TallCells, {"flat", "standing"})

TallMoves ==
    LineMoves({"h1", "h2"}, TallCells, TallCells, {<<n>> : n \in 1..4})

TallGame ==
    \/ OpenGame("h1", "h2", 3)
    \/ PlaceAccepted(TallPlacements, MaxTallPly)
    \/ MoveAccepted(TallMoves, MaxTallPly, MaxTallMoves)
    \/ MoveRejected(TallMoves, MaxTallPly)

SpecTall == Init /\ [][TallGame]_vars

\* w1 and w2 play on four cells of the first row of a 5 x 5 board: white
\* places flat stones and its capstone, black flat stones, walls and its
\* capstone, flat stones on the first three cells only, and both ask for
\* carries of one or two pieces over one or two cells.
WallCells == {<<0, c>> : c \in 0..3}

WallFlatCells == {<<0, c>> : c \in 0..2}

WallPlacements ==
    Placements({"w1", "w2"}, WallFlatCells, {"flat"}) \cup
    Placements({"w1"}, WallCells, {"capstone"}) \cup
    Placements({"w2"}, WallCells, {"standing", "capstone"})

WallMoves ==
    LineMoves({"w1", "w2"}, WallCells, WallCells, {<<1>>, <<2>>, <<1, 1>>})

WallGame ==
    \/ OpenGame("w1", "w2", 5)
    \/ PlaceAccepted(WallPlacements, MaxWallPly)
    \/ MoveAccepted(WallMoves, MaxWallPly, MaxWallMoves)
    \/ MoveRejected(WallMoves, MaxWallPly)

SpecWall == Init /\ [][WallGame]_vars

\* z1 asks for a game of every size from 2 to 9; z2 joins the game made and
\* the two make the opening placements on a few cells.
SizesTried == 2..9

SizeCells == {<<0, 0>>, <<0, 1>>, <<1, 0>>, <<1, 1>>, <<2, 2>>}

SizePlacements == Placements({"z1", "z2"}, SizeCells, {"flat"})

SizeGame ==
    \/ \E size \in SizesTried : createGame("z1", size, 0)
    \/ /\ whitePlayer = "z1"
       /\ joinGameError("z2") = "ok"
       /\ joinGame("z2")
    \/ PlaceAccepted(SizePlacements, MaxSizePly)

SpecSize == Init /\ [][SizeGame]_vars

\* j1, j2 and j3 ask for a game, by createGame or findGame, and ask to join
\* it, by joinGame or findGame, in every order and in every state; the two
\* players make the opening placements.
JoinUsers == {"j1", "j2", "j3"}

JoinSizes == {2, 3, 4}

JoinPlacements == Placements(JoinUsers, {<<0, 0>>, <<1, 1>>}, {"flat"})

JoinGame ==
    \/ \E size \in JoinSizes : createGame("j1", size, 0)
    \/ /\ moveCount < MaxJoinPly
       /\ \E u \in JoinUsers : joinGame(u)
    \/ /\ moveCount < MaxJoinPly
       /\ \E u \in JoinUsers, size \in JoinSizes : findGame(u, size)
    \/ PlaceAccepted(JoinPlacements, MaxJoinPly)

SpecJoin == Init /\ [][JoinGame]_vars

NextPlay ==
    \/ FillGame
    \/ StackGame
    \/ LongGame
    \/ CapGame

SpecPlay == Init /\ [][NextPlay]_vars

SpecFill == Init /\ [][FillGame]_vars
SpecStack == Init /\ [][StackGame]_vars
SpecLong == Init /\ [][LongGame]_vars
SpecCap == Init /\ [][CapGame]_vars

-----------------------------------------------------------------------------
(* Properties *)

Reserve(p) == IF p = "white" THEN whitePieces ELSE blackPieces

Allotment == getInitialPieces(boardSize)

\* The state is the one an accepted placePiece or movePieces left.
AfterPly == last.ok /\ last.op \in {"place", "move"}

\* C1: in every state of a created game, for each owner the number of the
\* owner's pieces on the board plus the owner's flat reserve plus the
\* owner's capstone reserve equals the owner's starting allotment for the
\* board size.
C1_ReserveConservation ==
    status # "none" =>
        \A p \in Players :
            PiecesOf(board, p) + Reserve(p).flat + Reserve(p).capstone
                = Allotment.flat + Allotment.capstone

\* The first j entries of a drop pattern, added up.
DroppedBefore(dropPattern, j) == SumSeq(SubSeq(dropPattern, 1, j))

\* C2: an accepted stack move puts the lowest d1 carried pieces on the first
\* cell of the path, the next d2 on the second, and so on, each group in its
\* bottom-to-top order; the top carried piece ends on the last cell.
C2_DropOrder ==
    \A c \in StackMoves :
        ~moveThrows(c) =>
            LET carried == LastN(At(board, c.fromRow, c.fromCol), c.stackSize)
                path    == pathOf(c.fromRow, c.fromCol, c.toRow, c.toCol)
                result  == movedBoard(c.fromRow, c.fromCol, c.toRow, c.toCol,
                                      c.stackSize, c.dropPattern).board
            IN  \A i \in 1..Len(path) :
                    LastN(At(result, path[i].row, path[i].col), c.dropPattern[i])
                        = SubSeq(carried, DroppedBefore(c.dropPattern, i - 1) + 1,
                                 DroppedBefore(c.dropPattern, i))

\* C3: each of the two opening placements takes one flat from the reserve
\* of the placed piece's owner and leaves the acting player's reserve alone:
\* after ply 1 black's flat reserve is one below the allotment and white's
\* is whole, after ply 2 both flat reserves are one below the allotment.
C3_OpeningCharge ==
    /\ (status # "none" /\ moveCount = 1) =>
            /\ blackPieces.flat = Allotment.flat - 1
            /\ whitePieces = Allotment
    /\ (status # "none" /\ moveCount = 2) =>
            /\ blackPieces.flat = Allotment.flat - 1
            /\ whitePieces.flat = Allotment.flat - 1

\* The cells whose stack is topped by a flat stone or a capstone of p.
Controls(b, p) ==
    {rc \in CellsOf(b) :
        LET s == At(b, rc[1], rc[2])
        IN  /\ s # << >>
            /\ s[Len(s)].player = p
            /\ s[Len(s)].type \in {"flat", "capstone"}}

Adjacent(a, c) == Abs(a[1] - c[1]) + Abs(a[2] - c[2]) = 1

RECURSIVE Connected(_, _)

\* The cells of a set that a chain of adjacent cells of the set joins to seen.
Connected(seen, cells) ==
    LET more == {c \in cells \ seen : \E a \in seen : Adjacent(a, c)}
    IN  IF more = {} THEN seen ELSE Connected(seen \cup more, cells)

\* A connected set of cells p controls touches the first and the last row,
\* or the first and the last column.
HasRoad(b, p) ==
    \E a \in Controls(b, p) :
        LET joined == Connected({a}, Controls(b, p))
        IN  \/ a[1] = 0 /\ \E z \in joined : z[1] = Len(b) - 1
            \/ a[2] = 0 /\ \E z \in joined : z[2] = Len(b) - 1

\* C4: checkRoad(board, p) is true exactly when a 4-connected set of cells,
\* each topped by a flat stone or capstone of p (never a standing stone),
\* joins the first row to the last or the first column to the last.
C4_RoadExact ==
    status # "none" =>
        \A p \in Players : checkRoad(board, p) <=> HasRoad(board, p)

\* A road that is no straight line: p has a road and controls no whole row
\* and no whole column.
BentRoad(b, p) ==
    /\ checkRoad(b, p)
    /\ \A k \in 0..(Len(b) - 1) :
            /\ \E j \in 0..(Len(b) - 1) : <<k, j>> \notin Controls(b, p)
            /\ \E j \in 0..(Len(b) - 1) : <<j, k>> \notin Controls(b, p)

C4_Witness ==
    /\ status = "finished"
    /\ \E p \in Players : BentRoad(board, p)
    /\ WallsOnBoard(board) > 0

OnlyRoad(p) == checkRoad(board, p) /\ ~checkRoad(board, Other(p))

\* C5: after an accepted placement or stack move that leaves a road for
\* exactly one player, the game is finished, that player is the winner and
\* the reason is road, whoever moved and whatever the board and reserves.
C5_RoadWins ==
    \A p \in Players :
        (AfterPly /\ OnlyRoad(p)) =>
            /\ status = "finished"
            /\ winner = p
            /\ winCondition = "road"

\* A stack move that uncovers the road of the player who did not move.
C5_Witness ==
    /\ AfterPly
    /\ \E p \in Players : OnlyRoad(p) /\ last.by = Other(p) /\ winner = p
    /\ winCondition = "road"

BothRoads == checkRoad(board, "white") /\ checkRoad(board, "black")

\* C6: after an accepted command that leaves a road for both players, the
\* winner is the player who made the command, and the reason is road.
C6_DragonClause ==
    (AfterPly /\ BothRoads) =>
        /\ status = "finished"
        /\ winner = last.by
        /\ winCondition = "road"

C6_Witness ==
    /\ AfterPly
    /\ BothRoads
    /\ status = "finished"
    /\ winner = last.by

NoRoad == ~checkRoad(board, "white") /\ ~checkRoad(board, "black")

EveryCellTaken ==
    \A r \in 1..Len(board) : \A c \in 1..Len(board) : board[r][c] # << >>

ReserveEmpty(p) == Reserve(p).flat = 0 /\ Reserve(p).capstone = 0

\* C7: after an accepted command that leaves no road, the game is finished
\* with reason flat if and only if every cell is taken or some player's flat
\* and capstone reserves are both zero; otherwise the game stays active.
C7_FlatTrigger ==
    (AfterPly /\ NoRoad) =>
        IF EveryCellTaken \/ (\E p \in Players : ReserveEmpty(p))
        THEN status = "finished" /\ winCondition = "flat"
        ELSE status = "active" /\ winner = "none"

\* The game ends on an empty reserve while cells are free.
C7_Witness ==
    /\ AfterPly
    /\ NoRoad
    /\ ~EveryCellTaken
    /\ ReserveEmpty("white")
    /\ status = "finished"
    /\ winCondition = "flat"

TopsOf(type, p) ==
    {rc \in CellsOf(board) :
        LET s == At(board, rc[1], rc[2])
        IN  s # << >> /\ s[Len(s)] = Piece(type, p)}

FlatTops(p) == Cardinality(TopsOf("flat", p))

\* C8: when the game ends by flats, only the stacks topped by a flat stone
\* count, each for the owner of that stone; the player with more of them
\* wins, and equal counts give a draw; the reason is flat.
C8_FlatTally ==
    (AfterPly /\ status = "finished" /\ winCondition = "flat") =>
        winner = IF FlatTops("white") > FlatTops("black") THEN "white"
                 ELSE IF FlatTops("black") > FlatTops("white") THEN "black"
                 ELSE "draw"

\* A draw by flats on a board that shows a standing stone and a capstone.
C8_Witness ==
    /\ AfterPly
    /\ status = "finished"
    /\ winCondition = "flat"
    /\ winner = "draw"
    /\ \E p \in Players : TopsOf("standing", p) # {}
    /\ \E p \in Players : TopsOf("capstone", p) # {}

\* C9: a game can be created with a komi of k half points: a createGame
\* request for a board size the game supports and a komi k is accepted.
C9_KomiAccepted ==
    (last.op = "create" /\ asked.boardSize \in 3..8 /\ asked.komi \in 0..MaxKomi)
        => last.ok

\* C10: white is the mover at ply 0; an accepted placement or stack move
\* that does not finish the game hands the turn to the other player; a
\* step that is neither (a rejected request, create, join, resign) leaves
\* the mover as it was.
C10_TurnAlternation ==
    /\ []((status # "none" /\ moveCount = 0) => currentPlayer = "white")
    /\ [][ IF last'.ok /\ last'.op \in {"place", "move"}
           THEN status' # "finished" =>
                    /\ currentPlayer = last'.by
                    /\ currentPlayer' = Other(currentPlayer)
           ELSE currentPlayer' = currentPlayer ]_vars

\* Black has moved a stack, the game goes on and the turn is white's.
C10_Witness ==
    /\ last = Returned("move", "black")
    /\ status = "active"
    /\ currentPlayer = "white"

\* C11: when an accepted placement or stack move ends the game (road, flat
\* count or draw), the current mover stored with the finished game is the
\* player who made that last command.
C11_MoverFrozen ==
    (AfterPly /\ status = "finished") => currentPlayer = last.by

\* The user whose turn it is.
Mover == IF currentPlayer = "white" THEN whitePlayer ELSE blackPlayer

\* C12: a placement or stack move asked for by anyone but the current
\* mover (the other player, or a user who plays neither colour) is rejected.
C12_TurnCheck ==
    /\ \A c \in TryPlacements :
            c[1] # Mover => placePieceError(c[1], c[2], c[3], c[4]) # "ok"
    /\ \A c \in TryMoves :
            c.user # Mover => moveError(c) # "ok"

\* A stack move was refused for being out of turn, in the normal phase.
C12_Witness ==
    /\ last = Thrown("move", "It's not your turn")
    /\ status = "active"
    /\ ~isOpeningPhase

\* C13: while the game is waiting or finished every placement, stack move
\* and resignation is rejected; a request of these kinds is accepted only
\* in a state whose status is active.
C13_ActiveOnly ==
    /\ [](status # "active" =>
            /\ \A c \in TryPlacements :
                    placePieceError(c[1], c[2], c[3], c[4]) # "ok"
            /\ \A c \in TryMoves : moveError(c) # "ok"
            /\ \A u \in TryUsers : resignError(u) # "ok")
    /\ [][ (last'.ok /\ last'.op \in {"place", "move", "resign"})
               => status = "active" ]_vars

\* A placement was refused on a game that a road had finished.
C13_Witness ==
    /\ last = Thrown("place", "Game is not active")
    /\ status = "finished"
    /\ winCondition = "road"

\* C14: once the game is finished no request (place, move, resign, join)
\* changes its board, reserves, ply count, current mover, status, winner
\* or win reason.
C14_FinishedAbsorbing ==
    [][ status = "finished" =>
            UNCHANGED << board, whitePieces, blackPieces, moveCount, currentPlayer,
                         status, winner, winCondition >> ]_vars

\* A user tried to join a game that a road had finished.
C14_Witness ==
    /\ last = Thrown("join", "Game is not available to join")
    /\ status = "finished"
    /\ winCondition = "road"

\* C15: a rejected placement or stack move, whatever the reason and also
\* when the stack move fails at a later cell of its path, leaves the stored
\* board, reserves, current mover, ply count, phase, status, outcome and
\* recorded moves as they were.
C15_RejectionKeepsState ==
    [][ (~last'.ok /\ last'.op \in {"place", "move"}) =>
            UNCHANGED << board, whitePieces, blackPieces, currentPlayer, moveCount,
                         isOpeningPhase, status, winner, winCondition,
                         movesRecorded >> ]_vars

WallMessage == "Only capstones can move onto standing stones"

\* A stack move was refused at a standing stone, and every stack move that
\* meets that refusal in this state meets it on the second cell of its
\* path, after a drop on the first.
C15_Witness ==
    /\ last = Thrown("move", WallMessage)
    /\ \A c \in TryMoves : moveError(c) = WallMessage => Len(c.dropPattern) = 2

\* C16: an accepted placement puts one piece on one empty cell; the piece
\* is black's on ply 0 (placed by white), white's on ply 1 (placed by
\* black), and the acting player's from ply 2 on.
C16_OpeningOwnership ==
    [][ (last'.ok /\ last'.op = "place") =>
            LET owner == IF moveCount = 0 THEN "black"
                         ELSE IF moveCount = 1 THEN "white"
                         ELSE last'.by
                changed == {rc \in CellsOf(board) :
                                At(board', rc[1], rc[2]) # At(board, rc[1], rc[2])}
            IN  /\ Cardinality(changed) = 1
                /\ (moveCount = 0 => last'.by = "white")
                /\ (moveCount = 1 => last'.by = "black")
                /\ \A rc \in changed :
                        /\ At(board, rc[1], rc[2]) = << >>
                        /\ Len(At(board', rc[1], rc[2])) = 1
                        /\ At(board', rc[1], rc[2])[1].player = owner ]_vars

\* White has made the first placement of its own after the two opening
\* ones: two white pieces and one black piece are on the board.
C16_Witness ==
    /\ last = Returned("place", "white")
    /\ moveCount = 3
    /\ PiecesOf(board, "white") = 2
    /\ PiecesOf(board, "black") = 1

\* C17: on ply 0 a placement of a standing stone or a capstone by the mover
\* is rejected, and a placement of a flat stone on any cell of the board is
\* accepted (every cell is empty then).
C17_FirstPlyFlat ==
    (status = "active" /\ moveCount = 0) =>
        \A rc \in Square(boardSize) :
            /\ At(board, rc[1], rc[2]) = << >>
            /\ placePieceError(Mover, rc[1], rc[2], "flat") = "ok"
            /\ placePieceError(Mover, rc[1], rc[2], "standing") # "ok"
            /\ placePieceError(Mover, rc[1], rc[2], "capstone") # "ok"

\* A placement was refused on ply 0 for the kind of its piece.
C17_Witness ==
    /\ last = Thrown("place", "Opening moves must be flat stones")
    /\ status = "active"
    /\ moveCount = 0

\* C18: on ply 1, the second opening placement, the mover's placement of a
\* standing stone on an empty cell of the board is accepted.
C18_SecondPlyAnyKind ==
    (status = "active" /\ moveCount = 1) =>
        \A rc \in Square(boardSize) :
            At(board, rc[1], rc[2]) = << >> =>
                placePieceError(Mover, rc[1], rc[2], "standing") = "ok"

\* C19: in every state of a created game the opening phase is on exactly
\* when fewer than two plies were accepted; the phase ends with the second
\* accepted placement and with nothing else, and once ended it stays ended.
C19_PhaseByPly ==
    /\ [](status # "none" => (isOpeningPhase <=> moveCount < 2))
    /\ [][(isOpeningPhase /\ ~isOpeningPhase') =>
                /\ last'.op = "place"
                /\ last'.ok
                /\ moveCount = 1
                /\ moveCount' = 2]_vars
    /\ [][~isOpeningPhase => ~isOpeningPhase']_vars

\* The second placement was just accepted and the opening phase is over.
C19_Witness ==
    /\ last = Returned("place", "black")
    /\ moveCount = 2
    /\ ~isOpeningPhase
    /\ status = "active"

\* C20: while fewer than two plies were accepted every movePieces request
\* is rejected, the mover's requests of an active game for the opening phase;
\* this includes black on ply 1 moving the black flat that white placed.
C20_NoOpeningMoves ==
    moveCount < 2 =>
        \A c \in TryMoves :
            /\ moveError(c) # "ok"
            /\ (status = "active" /\ c.user = Mover) =>
                    moveError(c) = "Cannot move pieces during opening phase"

\* On ply 1, with a black flat on the board, a stack move was refused
\* for the opening phase.
C20_Witness ==
    /\ last = Thrown("move", "Cannot move pieces during opening phase")
    /\ moveCount = 1
    /\ PiecesOf(board, "black") = 1
    /\ currentPlayer = "black"

\* The reserve field a placement of the kind draws on.
DrawnFrom(pieceType) == IF pieceType = "capstone" THEN "capstone" ELSE "flat"

\* C21: after the opening, a placement by the mover on an empty cell is
\* accepted exactly when the mover's reserve for the kind is above zero (the
\* capstone reserve for a capstone, the flat reserve for a flat or a standing
\* stone); an accepted one takes 1 from that reserve of the acting player
\* and leaves that player's other reserve and the opponent's reserves alone.
C21_NormalPlacementReserves ==
    /\ []((status = "active" /\ ~isOpeningMove) =>
            \A rc \in CellsOf(board), t \in PieceTypes :
                At(board, rc[1], rc[2]) = << >> =>
                    placePieceError(Mover, rc[1], rc[2], t) =
                        IF Reserve(currentPlayer)[DrawnFrom(t)] > 0 THEN "ok"
                        ELSE IF t = "capstone" THEN "No capstones remaining"
                        ELSE "No flat stones remaining")
    /\ [][ (last'.ok /\ last'.op = "place" /\ ~isOpeningMove) =>
            LET actor  == last'.by
                placed == {At(board', rc[1], rc[2])[1].type :
                              rc \in {c \in CellsOf(board) :
                                         At(board', c[1], c[2]) # At(board, c[1], c[2])}}
                mine   == IF actor = "white" THEN whitePieces ELSE blackPieces
                mine2  == IF actor = "white" THEN whitePieces' ELSE blackPieces'
                other  == IF actor = "white" THEN blackPieces ELSE whitePieces
                other2 == IF actor = "white" THEN blackPieces' ELSE whitePieces'
            IN  /\ actor = currentPlayer
                /\ other2 = other
                /\ \A t \in placed :
                        /\ mine[DrawnFrom(t)] > 0
                        /\ mine2 = [mine EXCEPT ![DrawnFrom(t)] = @ - 1] ]_vars

\* White has placed its capstone on a 5 x 5 board: its capstone reserve is
\* used up, its flat reserve is not, and the game goes on.
C21_Witness ==
    /\ last = Returned("place", "white")
    /\ boardSize = 5
    /\ whitePieces.capstone = 0
    /\ whitePieces.flat > 0
    /\ status = "active"
    /\ blackPieces.capstone = 1

\* The pieces an accepted stack move lifted: what the origin lost.
Lifted ==
    {Len(At(board, rc[1], rc[2])) - Len(At(board', rc[1], rc[2])) :
        rc \in {c \in CellsOf(board) :
                   Len(At(board', c[1], c[2])) < Len(At(board, c[1], c[2]))}}

\* C22: a stack move by the mover from a stack the mover controls is
\* accepted only with a carry count from 1 to the smaller of the stack's
\* height and the board size, and is refused for its carry count otherwise;
\* no accepted move lifts more pieces than the board size.
C22_CarryLimit ==
    /\ []((status = "active" /\ ~isOpeningMove) =>
            \A c \in TallMoves :
                LET fromStack == At(board, c.fromRow, c.fromCol)
                    inRange   == /\ 1 <= c.stackSize
                                 /\ c.stackSize <= Len(fromStack)
                                 /\ c.stackSize <= boardSize
                IN  /\ moveError(c) = "ok" => inRange
                    /\ ( /\ c.user = Mover
                         /\ fromStack # << >>
                         /\ Top(fromStack).player = currentPlayer
                         /\ ~inRange ) => moveError(c) = "Invalid stack size")
    /\ [][ (last'.ok /\ last'.op = "move") =>
            /\ Lifted # {}
            /\ \A n \in Lifted : 1 <= n /\ n <= boardSize ]_vars

\* A carry was refused for its count while the mover controls a stack
\* higher than the board is wide: a carry of the whole stack is among the
\* requests, and only the board size stands against it.
C22_Witness ==
    /\ last = Thrown("move", "Invalid stack size")
    /\ \E c \in TallMoves :
          LET fromStack == At(board, c.fromRow, c.fromCol)
          IN  /\ c.user = Mover
              /\ Len(fromStack) > boardSize
              /\ Top(fromStack).player = currentPlayer
              /\ c.stackSize = Len(fromStack)
              /\ Len(At(board, c.toRow, c.toCol)) = 0

\* The cells an accepted stack move dropped pieces on.
Grew ==
    {c \in CellsOf(board) : Len(At(board', c[1], c[2])) > Len(At(board, c[1], c[2]))}

\* The cell an accepted stack move lifted pieces from.
Shrank ==
    {c \in CellsOf(board) : Len(At(board', c[1], c[2])) < Len(At(board, c[1], c[2]))}

\* Cell m lies on the straight line from cell a to cell b, a excluded.
Between(a, m, b) ==
    /\ m # a
    /\ \/ a[1] = b[1] /\ m[1] = a[1] /\ Abs(m[2] - a[2]) + Abs(b[2] - m[2]) = Abs(b[2] - a[2])
       \/ a[2] = b[2] /\ m[2] = a[2] /\ Abs(m[1] - a[1]) + Abs(b[1] - m[1]) = Abs(b[1] - a[1])

\* C23: a stack move is accepted only if its drop pattern has one entry for
\* each cell of the straight path from origin to destination, every entry
\* is at least 1 and the entries add up to the carry count; a request that
\* is otherwise in order is refused for its pattern when one of the three
\* fails. An accepted move therefore drops at least one piece on every
\* cell of its path and travels no further than the pieces it carries.
C23_DropPattern ==
    /\ [](\A c \in TryMoves :
            LET fromStack == At(board, c.fromRow, c.fromCol)
                rowDiff   == c.toRow - c.fromRow
                colDiff   == c.toCol - c.fromCol
                straight  == (rowDiff = 0) # (colDiff = 0)
                wellFormed == /\ Len(c.dropPattern) = Abs(rowDiff) + Abs(colDiff)
                              /\ \A i \in 1..Len(c.dropPattern) : c.dropPattern[i] >= 1
                              /\ SumSeq(c.dropPattern) = c.stackSize
            IN  /\ moveError(c) = "ok" => (straight /\ wellFormed)
                /\ ( /\ status = "active"
                     /\ ~isOpeningMove
                     /\ c.user = Mover
                     /\ isValidPosition(c.fromRow, c.fromCol, boardSize)
                     /\ isValidPosition(c.toRow, c.toCol, boardSize)
                     /\ fromStack # << >>
                     /\ Top(fromStack).player = currentPlayer
                     /\ ~invalidStackSize(c.stackSize, fromStack)
                     /\ straight
                     /\ ~wellFormed ) =>
                        moveError(c) \in {"Drop pattern length must match distance",
                                          "Drop pattern must account for all pieces",
                                          "All drop counts must be positive"})
    /\ [][ (last'.ok /\ last'.op = "move") =>
            /\ Cardinality(Shrank) = 1
            /\ Grew # {}
            /\ \A n \in Lifted : Cardinality(Grew) <= n
            /\ \A a \in Shrank : \E b \in Grew :
                  Grew = {m \in CellsOf(board) : Between(a, m, b)} ]_vars

\* A stack move was refused for the length of its pattern, in a state where
\* other requests are refused for the sum and for a zero entry.
C23_Witness ==
    /\ last = Thrown("move", "Drop pattern length must match distance")
    /\ \E c \in TryMoves : moveError(c) = "Drop pattern must account for all pieces"
    /\ \E c \in TryMoves : moveError(c) = "All drop counts must be positive"

\* The path of a stack move request.
PathOfCmd(c) == pathOf(c.fromRow, c.fromCol, c.toRow, c.toCol)

\* The top piece of the i-th cell of the request's path has the type.
ToppedBy(c, i, type) ==
    LET s == At(board, PathOfCmd(c)[i].row, PathOfCmd(c)[i].col)
    IN  s # << >> /\ Top(s).type = type

\* The top piece of the stack the request lifts from is a capstone.
CapstoneOnCarry(c) ==
    LET fromStack == At(board, c.fromRow, c.fromCol)
    IN  /\ fromStack # << >>
        /\ Top(fromStack).type = "capstone"

\* C24: a stack move whose path has a cell topped by a standing stone is
\* rejected when that cell is not the last of the path, whatever is
\* carried, and when it is the last but the drop count for it is not 1 or
\* the carry has no capstone on top to drop there.
C24_WallsBlock ==
    status = "active" =>
        \A c \in WallMoves : \A i \in 1..Len(PathOfCmd(c)) :
            ( /\ ToppedBy(c, i, "standing")
              /\ \/ i < Len(PathOfCmd(c))
                 \/ c.dropPattern[i] # 1
                 \/ ~CapstoneOnCarry(c) ) => moveError(c) # "ok"

\* A carry with a capstone on top was refused at a standing stone, and in
\* this state the mover has both a request whose path meets the standing
\* stone before its last cell and one that ends on it with a drop of two.
C24_Witness ==
    /\ last = Thrown("move",
           "Capstone can only flatten standing stone if it's the final piece dropped")
    /\ \E c \in WallMoves :
          /\ c.user = Mover /\ CapstoneOnCarry(c)
          /\ ~invalidStackSize(c.stackSize, At(board, c.fromRow, c.fromCol))
          /\ Len(c.dropPattern) = 2 /\ ToppedBy(c, 1, "standing")
    /\ \E c \in WallMoves :
          /\ c.user = Mover /\ CapstoneOnCarry(c)
          /\ ~invalidStackSize(c.stackSize, At(board, c.fromRow, c.fromCol))
          /\ c.dropPattern = <<2>> /\ ToppedBy(c, 1, "standing")

\* C25: a stack move by the mover that carries its capstone alone one cell
\* onto a cell topped by a standing stone is accepted; the move leaves the
\* standing stone flat with its owner unchanged, the capstone directly on
\* it, and the pieces below as they were.
C25_LoneCapstoneFlattens ==
    /\ [](status = "active" =>
            \A c \in WallMoves :
                LET fromStack == At(board, c.fromRow, c.fromCol)
                IN  ( /\ c.user = Mover
                      /\ fromStack # << >>
                      /\ Top(fromStack) = Piece("capstone", currentPlayer)
                      /\ c.stackSize = 1
                      /\ c.dropPattern = <<1>>
                      /\ ToppedBy(c, 1, "standing") ) => moveError(c) = "ok")
    /\ [][ (last'.ok /\ last'.op = "move") =>
            \A g \in Grew :
                LET old == At(board, g[1], g[2])
                    new == At(board', g[1], g[2])
                IN  (old # << >> /\ Top(old).type = "standing") =>
                        /\ Len(new) = Len(old) + 1
                        /\ new[Len(new)] = Piece("capstone", last'.by)
                        /\ new[Len(old)] = Piece("flat", Top(old).player)
                        /\ SubSeq(new, 1, Len(old) - 1) = SubSeq(old, 1, Len(old) - 1)
                        /\ Lifted = {1} ]_vars

\* White's capstone has made the only stack move of the game, onto the
\* last cell of the row, where no flat stone is ever placed: the black
\* piece below it was placed standing and is flat now.
C25_Witness ==
    /\ last = Returned("move", "white")
    /\ moveCount = 5
    /\ StackMovesMade = 1
    /\ At(board, 0, 3) = << Piece("flat", "black"), Piece("capstone", "white") >>

\* C26: a stack move by the mover that carries more than one piece with
\* its capstone on top, whose path meets no standing stone and no capstone
\* before its last cell, and that ends with a drop of 1 on a cell topped by
\* a standing stone, is accepted.
C26_CapstoneEndsCarry ==
    status = "active" =>
        \A c \in WallMoves :
            LET fromStack == At(board, c.fromRow, c.fromCol)
                n         == Len(PathOfCmd(c))
            IN  ( /\ c.user = Mover
                  /\ c.stackSize > 1
                  /\ c.stackSize <= Len(fromStack)
                  /\ Top(fromStack) = Piece("capstone", currentPlayer)
                  /\ \A i \in 1..(n - 1) :
                        ~ToppedBy(c, i, "standing") /\ ~ToppedBy(c, i, "capstone")
                  /\ ToppedBy(c, n, "standing")
                  /\ c.dropPattern[n] = 1 ) => moveError(c) = "ok"

\* C27: a stack move whose path has a cell topped by a capstone, as its
\* last cell or before it, is rejected, whatever is carried, a capstone
\* included.
C27_CapstonesBlock ==
    status = "active" =>
        \A c \in WallMoves : \A i \in 1..Len(PathOfCmd(c)) :
            ToppedBy(c, i, "capstone") => moveError(c) # "ok"

\* A stack move was refused at a capstone; in this state the mover's own
\* capstone, carried alone, is refused at the other capstone next to it,
\* and a request of the mover is refused at a capstone on the second cell
\* of its path after a drop on the first.
C27_Witness ==
    /\ last = Thrown("move", "Cannot move onto capstones")
    /\ \E c \in WallMoves :
          /\ c.user = Mover
          /\ At(board, c.fromRow, c.fromCol) = << Piece("capstone", currentPlayer) >>
          /\ c.dropPattern = <<1>>
          /\ ToppedBy(c, 1, "capstone")
          /\ moveError(c) = "Cannot move onto capstones"
    /\ \E c \in WallMoves :
          /\ c.user = Mover
          /\ Len(c.dropPattern) = 2
          /\ ToppedBy(c, 2, "capstone")
          /\ moveError(c) = "Cannot move onto capstones"

\* The number of pieces of the type and owner on a board.
PiecesLike(b, type, p) ==
    LET RECURSIVE inStack(_, _)
        inStack(s, i) == IF i > Len(s) THEN 0
                         ELSE (IF s[i] = Piece(type, p) THEN 1 ELSE 0) + inStack(s, i + 1)
        RECURSIVE rowSum(_, _)
        rowSum(r, c) == IF c > Len(b) THEN 0 ELSE inStack(b[r][c], 1) + rowSum(r, c + 1)
        RECURSIVE allSum(_)
        allSum(r) == IF r > Len(b) THEN 0 ELSE rowSum(r, 1) + allSum(r + 1)
    IN  allSum(1)

\* The owners of the standing stones an accepted stack move dropped on.
WallsCovered ==
    {Top(At(board, g[1], g[2])).player :
        g \in {c \in Grew : At(board, c[1], c[2]) # << >>
                             /\ Top(At(board, c[1], c[2])).type = "standing"}}

\* C28: an accepted stack move leaves both reserves unchanged and leaves
\* the number of pieces of each owner and kind on the board unchanged,
\* except that a move onto a standing stone turns exactly that one piece
\* from standing to flat for the same owner; no piece changes owner.
C28_MoveConserves ==
    [][ (last'.ok /\ last'.op = "move") =>
            /\ whitePieces' = whitePieces
            /\ blackPieces' = blackPieces
            /\ Cardinality(WallsCovered) <= 1
            /\ \A p \in Players :
                  LET turned == IF p \in WallsCovered THEN 1 ELSE 0
                  IN  /\ PiecesOf(board', p) = PiecesOf(board, p)
                      /\ PiecesLike(board', "capstone", p) = PiecesLike(board, "capstone", p)
                      /\ PiecesLike(board', "standing", p)
                            = PiecesLike(board, "standing", p) - turned
                      /\ PiecesLike(board', "flat", p)
                            = PiecesLike(board, "flat", p) + turned ]_vars

\* The second stack move of a game has carried pieces onto a stack that is
\* three pieces high now, while a standing stone is on the board.
C28_Witness ==
    /\ last.ok /\ last.op = "move"
    /\ StackMovesMade = 2
    /\ \E rc \in WallCells : Len(At(board, rc[1], rc[2])) = 3
    /\ \E p \in Players : PiecesLike(board, "standing", p) = 1

\* C29: each player of an active game can resign, on its turn or not; the
\* resignation finishes the game with the other player as winner and
\* reason resign, and leaves the board, both reserves, the ply count and
\* the recorded moves as they were.
C29_Resignation ==
    /\ [](status = "active" =>
            resignError(whitePlayer) = "ok" /\ resignError(blackPlayer) = "ok")
    /\ [][ (last'.ok /\ last'.op = "resign") =>
            /\ status = "active"
            /\ status' = "finished"
            /\ winner' = Other(last'.by)
            /\ winCondition' = "resign"
            /\ UNCHANGED << board, whitePieces, blackPieces, moveCount,
                            movesRecorded >> ]_vars

\* After two stack moves the player who has just moved, and whose turn it
\* is not, has resigned: the other player has won.
C29_Witness ==
    /\ last = Returned("resign", Other(currentPlayer))
    /\ status = "finished"
    /\ winner = currentPlayer
    /\ winCondition = "resign"
    /\ StackMovesMade = 2
    /\ movesRecorded = moveCount

\* The reserves each player starts with, by board size.
ReserveTable(size) ==
    CASE size = 3 -> [flat |-> 10, capstone |-> 0]
      [] size = 4 -> [flat |-> 15, capstone |-> 0]
      [] size = 5 -> [flat |-> 21, capstone |-> 1]
      [] size = 6 -> [flat |-> 30, capstone |-> 1]
      [] size = 7 -> [flat |-> 40, capstone |-> 2]
      [] size = 8 -> [flat |-> 50, capstone |-> 2]

\* C30: createGame is accepted for the board sizes 3 to 8 and for no other;
\* the game it makes is waiting, its board has size x size empty cells,
\* white is to move, no ply is counted, the opening phase is on, and both
\* players hold the reserves of the table for the size.
C30_InitialState ==
    /\ \A size \in SizesTried : (createGameError(size, 0) = "ok") <=> (size \in 3..8)
    /\ (last.op = "create" /\ ~last.ok) => (status = "none" /\ asked.boardSize \notin 3..8)
    /\ (last.op = "create" /\ last.ok) =>
            /\ asked.boardSize \in 3..8
            /\ boardSize = asked.boardSize
            /\ status = "waiting"
            /\ Len(board) = boardSize
            /\ \A r \in 1..boardSize :
                  /\ Len(board[r]) = boardSize
                  /\ \A c \in 1..boardSize : board[r][c] = << >>
            /\ currentPlayer = "white"
            /\ moveCount = 0
            /\ isOpeningPhase
            /\ whitePieces = ReserveTable(boardSize)
            /\ blackPieces = ReserveTable(boardSize)
            /\ winner = "none"

\* A game on the largest board has just been made.
C30_Witness ==
    /\ last = Returned("create", "none")
    /\ boardSize = 8
    /\ status = "waiting"
    /\ whitePieces = [flat |-> 50, capstone |-> 2]

\* Some player would have a road after one flat stone of its own on an
\* empty cell of the board.
OneFlatFromRoad(b) ==
    \E p \in Players : \E rc \in CellsOf(b) :
        /\ At(b, rc[1], rc[2]) = << >>
        /\ HasRoad(WithStack(b, rc[1], rc[2], << Piece("flat", p) >>), p)

\* C31: an accepted placement or stack move returns a tak warning only
\* when it returns no winner, and then exactly when some player could
\* complete a road with one flat stone on an empty cell of the board
\* written; the warning names a player who could. The board written holds
\* the pieces of the command and no trial piece, and the game is finished
\* exactly when a winner is returned.
C31_TakAdvisory ==
    /\ [](AfterPly =>
            LET judged == last.op = "move" \/ moveCount # 1
                tw     == takWarningReturned(board, whitePieces, blackPieces,
                                             last.by, judged)
            IN  /\ tw # "none" => (winner = "none" /\ status = "active")
                /\ winner = "none" => (tw # "none" <=> OneFlatFromRoad(board))
                /\ tw # "none" =>
                      \E rc \in CellsOf(board) :
                          /\ At(board, rc[1], rc[2]) = << >>
                          /\ HasRoad(WithStack(board, rc[1], rc[2],
                                               << Piece("flat", tw) >>), tw)
                /\ (status = "finished") <=> (winner # "none"))
    /\ [][ (last'.ok /\ last'.op \in {"place", "move"}) =>
            PiecesOnBoard(board')
                = PiecesOnBoard(board) + (IF last'.op = "place" THEN 1 ELSE 0) ]_vars

\* A stack move has left the game active with black, and not white, one
\* flat stone from a road.
C31_Witness ==
    /\ last.ok /\ last.op = "move"
    /\ status = "active"
    /\ takWarningOf(board) = "black"
    /\ ~checkTak(board, "white")

\* The board with rows and columns exchanged.
Transposed(b) == [r \in 1..Len(b) |-> [c \in 1..Len(b) |-> b[c][r]]]

\* The board turned by 90 degrees: the first column becomes the first row.
Rotated(b) == [r \in 1..Len(b) |-> [c \in 1..Len(b) |-> b[Len(b) + 1 - c][r]]]

\* C32: for the board of every state and each player, checkRoad answers
\* the same on the board, on the board turned by 90 degrees and on the
\* board transposed; what the search from the first column finds on one is
\* what the search from the first row finds on the other.
C32_RoadSymmetry ==
    status # "none" =>
        \A p \in Players : \A turned \in {Rotated(board), Transposed(board)} :
            /\ checkRoad(turned, p) = checkRoad(board, p)
            /\ verticalAny(turned, p) = horizontalFrom(board, {}, 0, p)
            /\ horizontalFrom(turned, {}, 0, p) = verticalAny(board, p)

\* A game has ended by a road that joins the first column to the last,
\* is not a straight line, and joins no row to another.
C32_Witness ==
    /\ status = "finished"
    /\ winCondition = "road"
    /\ \E p \in Players :
          /\ horizontalFrom(board, {}, 0, p)
          /\ ~verticalAny(board, p)
          /\ BentRoad(board, p)

\* C33: a join, by joinGame or by findGame finding the game, succeeds only
\* on a waiting game and only for a user who is not its white player; it
\* makes the game active with that user as black and leaves the board, the
\* reserves, the mover and the ply count alone. Of the join requests made
\* for a game, in any order, exactly one succeeds: once the game is active
\* every further one is refused or goes to another game, and the black
\* player stays who it is.
C33_AdmitSecondPlayer ==
    /\ [](\A u \in JoinUsers :
            /\ (joinGameError(u) = "ok") <=> (status = "waiting" /\ whitePlayer # u)
            /\ \A size \in JoinSizes :
                  waitingGameFor(u, size) => joinGameError(u) = "ok")
    /\ [][ (status' = "active" /\ status # "active") =>
            /\ status = "waiting"
            /\ last'.ok
            /\ last'.op \in {"join", "find"}
            /\ blackPlayer' \in JoinUsers \ {whitePlayer}
            /\ UNCHANGED << board, whitePieces, blackPieces, currentPlayer, moveCount,
                            whitePlayer, boardSize, isOpeningPhase >> ]_vars
    /\ [][ (last'.ok /\ last'.op = "join") =>
            (status = "waiting" /\ status' = "active") ]_vars
    /\ [][ (status = "active" \/ status = "finished") =>
            (blackPlayer' = blackPlayer /\ whitePlayer' = whitePlayer) ]_vars

\* j3 has joined j1's game and a further joinGame, before any placement,
\* was refused.
C33_Witness ==
    /\ last = Thrown("join", "Game is not available to join")
    /\ status = "active"
    /\ moveCount = 0
    /\ whitePlayer = "j1"
    /\ blackPlayer = "j3"

\* The record movePieces inserts for a request.
RecordOf(c) ==
    MoveRecord(c.fromRow, c.fromCol, c.toRow, c.toCol, c.stackSize, c.dropPattern)

\* The direction symbol of a stack move: + towards higher rows, - towards
\* lower rows, > towards higher columns, < towards lower columns.
DirectionSymbol(c) ==
    IF c.toRow > c.fromRow THEN "+"
    ELSE IF c.toRow < c.fromRow THEN "-"
    ELSE IF c.toCol > c.fromCol THEN ">"
    ELSE "<"

\* The notation of a stack move: the carry count unless it is 1, the file
\* letter and rank of the origin, the direction symbol, and the drop counts
\* unless the whole carry is dropped on one cell.
MovementNotation(c) ==
    (IF c.stackSize > 1 THEN NumberToString(c.stackSize) ELSE << >>)
        \o fromCharCode(97 + c.fromCol) \o NumberToString(c.fromRow + 1)
        \o << DirectionSymbol(c) >>
        \o (IF Len(c.dropPattern) > 1 THEN joinPattern(c.dropPattern) ELSE << >>)

\* C34: the notation generated for the record of every stack move the
\* game accepts is the carry count (omitted when 1), the origin as file
\* letter and rank, one direction symbol among + - < >, and the drop digits
\* (omitted when trivial); it names no destination square.
C34_MovementNotation ==
    status = "active" =>
        \A c \in StackMoves :
            moveError(c) = "ok" =>
                LET notation == generateMoveNotation(RecordOf(c))
                IN  /\ notation = MovementNotation(c)
                    /\ \E i \in 1..Len(notation) : notation[i] \in {"+", "-", "<", ">"}

\* The stack with a standing stone on top of it turned flat.
WithFlatTop(s) ==
    IF s # << >> /\ s[Len(s)].type = "standing"
    THEN [s EXCEPT ![Len(s)].type = "flat"]
    ELSE s

\* C35: an accepted stack move changes the origin and the cells of its path
\* and no other cell; the origin keeps its bottom pieces, those not
\* carried, in their order; every cell of the path keeps the pieces it had,
\* in their order (a standing stone on top turned flat), beneath the pieces
\* dropped on it.
C35_MoveFrame ==
    [][ (last'.ok /\ last'.op = "move") =>
            /\ Cardinality(Shrank) = 1
            /\ \A a \in Shrank :
                  LET old == At(board, a[1], a[2])
                      new == At(board', a[1], a[2])
                  IN  /\ new = SubSeq(old, 1, Len(new))
                      /\ Lifted = {Len(old) - Len(new)}
                      /\ \E b \in Grew : Grew = {m \in CellsOf(board) : Between(a, m, b)}
            /\ \A g \in Grew :
                  LET old == At(board, g[1], g[2])
                      new == At(board', g[1], g[2])
                  IN  SubSeq(new, 1, Len(old)) = WithFlatTop(old)
            /\ \A c \in CellsOf(board) \ (Shrank \cup Grew) :
                  At(board', c[1], c[2]) = At(board, c[1], c[2]) ]_vars

\* White's second stack move has put its flat stone on a black one, next
\* to a cell that holds one black flat stone.
C35_Witness ==
    /\ last = Returned("move", "white")
    /\ moveCount = 5
    /\ StackMovesMade = 2
    /\ At(board, 0, 0) = << >>
    /\ At(board, 0, 1) = << Piece("flat", "black") >>
    /\ At(board, 0, 2) = << Piece("flat", "black"), Piece("flat", "white") >>

\* C36: in every active game no player has a road, a cell of the board is
\* empty and each player has a piece left in reserve; a state with a road,
\* a full board or an empty reserve of a created game is a finished game.
C36_ActiveInvariant ==
    /\ status = "active" =>
          /\ ~HasRoad(board, "white") /\ ~HasRoad(board, "black")
          /\ \E rc \in CellsOf(board) : At(board, rc[1], rc[2]) = << >>
          /\ \A p \in {"white", "black"} : Reserve(p).flat + Reserve(p).capstone > 0
    /\ (/\ status # "none"
        /\ \/ HasRoad(board, "white") \/ HasRoad(board, "black")
           \/ EveryCellTaken
           \/ ReserveEmpty("white") \/ ReserveEmpty("black")) => status = "finished"

\* An active game one placement away from its end: white has one flat
\* stone left in reserve.
C36_Witness ==
    /\ status = "active"
    /\ AfterPly
    /\ whitePieces.flat + whitePieces.capstone = 1
    /\ blackPieces.flat + blackPieces.capstone > 0

FreeCells == {rc \in CellsOf(board) : At(board, rc[1], rc[2]) = << >>}

\* C37: in every active game the player to move has a placement that is
\* accepted: a cell is empty and there is a kind of piece the player may
\* put on it.
C37_NoDeadEnd ==
    status = "active" =>
        \E rc \in FreeCells : \E k \in {"flat", "standing", "capstone"} :
            placePieceError(Mover, rc[1], rc[2], k) = "ok"

\* An active game past its opening in which the player to move has one
\* flat stone left and several cells to put it on.
C37_Witness ==
    /\ status = "active"
    /\ ~isOpeningPhase
    /\ Cardinality(FreeCells) > 1
    /\ Reserve(currentPlayer).flat = 1
    /\ Reserve(currentPlayer).capstone = 0

\* C38: a standing stone or a capstone is the top piece of its stack: every
\* piece beneath the top of a stack is a flat stone.
C38_NeverCovered ==
    \A rc \in CellsOf(board) :
        LET s == At(board, rc[1], rc[2])
        IN  \A i \in 1..Len(s) : s[i].type # "flat" => i = Len(s)

\* A stack move has carried a standing stone or a capstone onto a flat
\* stone of the row, and another cell of the row holds a standing stone or
\* a capstone too.
C38_Witness ==
    /\ last.ok /\ last.op = "move"
    /\ \E rc \in CellsOf(board) :
          /\ Len(At(board, rc[1], rc[2])) = 2
          /\ At(board, rc[1], rc[2])[2].type # "flat"
          /\ \E other \in CellsOf(board) \ {rc} :
                /\ At(board, other[1], other[2]) # << >>
                /\ Top(At(board, other[1], other[2])).type # "flat"

\* C39: the ply count grows by one on every accepted placement and stack
\* move and is left as it was by every other step (a rejected request,
\* create, join, find, resign); in every active game white is to move if
\* and only if the ply count is even.
C39_PlyParity ==
    /\ [](status = "active" => (currentPlayer = "white" <=> moveCount % 2 = 0))
    /\ [][ moveCount' = IF last'.ok /\ last'.op \in {"place", "move"}
                        THEN moveCount + 1
                        ELSE moveCount ]_vars

\* After a placement, a stack move and a request that was turned down the
\* count is odd and black is to move.
C39_Witness ==
    /\ status = "active"
    /\ ~last.ok
    /\ moveCount = 5
    /\ StackMovesMade >= 1
    /\ currentPlayer = "black"

\* C40: the flat and capstone reserves of both players of a created game
\* lie between zero and the starting values of the board size, and no step
\* raises any of them.
C40_ReservesInRange ==
    /\ [](status # "none" =>
            \A p \in Players :
                /\ Reserve(p).flat \in 0..ReserveTable(boardSize).flat
                /\ Reserve(p).capstone \in 0..ReserveTable(boardSize).capstone)
    /\ [][ status # "none" =>
            /\ whitePieces'.flat <= whitePieces.flat
            /\ whitePieces'.capstone <= whitePieces.capstone
            /\ blackPieces'.flat <= blackPieces.flat
            /\ blackPieces'.capstone <= blackPieces.capstone ]_vars

\* A placement has taken the last flat stone of the player who made it,
\* and the other player's reserve is below its starting value too.
C40_Witness ==
    /\ last.ok /\ last.op = "place"
    /\ Reserve(last.by).flat = 0
    /\ Reserve(Other(last.by)).flat \in 1..(ReserveTable(boardSize).flat - 1)

====
